---- MODULE Spec2Model ----
(***************************************************************************)
(* Ingestion pipeline of the criminal-justice bias analyser                *)
(* (utils.parseAndCleanData, standardizeRace, convertSentenceToYears) and  *)
(* the App component that owns the loaded dataset.                         *)
(*                                                                         *)
(* Representation.                                                         *)
(*  - A JavaScript string is a sequence of one-character strings, so that  *)
(*    toLowerCase, includes, trim, charAt, slice, parseInt and parseFloat  *)
(*    are computed character by character.                                 *)
(*  - The JavaScript value undefined, where a string is expected, is the   *)
(*    one-element sequence <<"undefined">> (no string equals it, its only  *)
(*    element is not a character).                                         *)
(*  - NaN is the empty sequence and the number v the sequence <<v>>, for   *)
(*    the results of parseInt and new Date(..).getTime().                  *)
(*  - A number that need not be an integer is a fraction <<n, d>> in       *)
(*    lowest terms with d > 0; <<0, 0>> stands for undefined.              *)
(*  - null is the string "null"; where a value may be null, comparisons     *)
(*    are written with the sequence on the left, as TLC requires.           *)
(***************************************************************************)
EXTENDS Integers, Sequences, FiniteSets, TLC

VARIABLES
    raceIn,          \* argument of the latest standardizeRace call
    raceOut,         \* its return value ("none" before the call)
    csv,             \* the table d3.csvParse produced for the latest parseAndCleanData call
    result,          \* what that call returned (NoResult before the call)
    defaultDataCSV,  \* the table of the bundled default dataset
    data,            \* App: useState<CaseData[] | null>
    error,           \* App: useState<string | null>
    activeView,      \* App: useState<View>
    screen,          \* App: useState<Screen>
    timerPending,    \* App: the 100 ms setTimeout of the mount effect has not fired yet
    reads,           \* FileUpload: FileReader.readAsText calls still in flight
    isLoading,       \* FileUpload: useState(false)
    fileName,        \* FileUpload: useState<string | null>
    lastEvent,       \* the handler that ran last
    dataBefore,      \* App: data as it was when the latest load attempt began
    termIn,          \* first argument of the latest convertSentenceToYears call
    unitIn,          \* its second argument
    yearsOut,        \* its return value ("none" before the call)
    currentYear,     \* Dashboard: new Date().getFullYear() when yearExtent was computed
    filters,         \* Dashboard: useState<FilterState>
    thresholds,      \* Dashboard: useState of the threshold configuration
    filteredData,    \* Dashboard: the value of the filteredData memo
    memo,            \* what the latest view computation or export produced
    isActive,        \* VoiceAssistant: useState(false)
    isConnecting,    \* VoiceAssistant: useState(false)
    isListening,     \* VoiceAssistant: useState(false)
    isSpeaking,      \* VoiceAssistant: useState(false)
    sessionPromiseRef,       \* VoiceAssistant: useRef, 0 for null, else the startSession call that set it
    inputAudioContextRef,    \* VoiceAssistant: useRef, likewise
    outputAudioContextRef,   \* VoiceAssistant: useRef, likewise
    scriptProcessorRef,      \* VoiceAssistant: useRef, likewise
    mediaStreamSourceRef,    \* VoiceAssistant: useRef, likewise
    mediaStreamRef,          \* VoiceAssistant: useRef, likewise
    sessions,        \* per startSession call: its position and the objects it created
    stopsAwaiting,   \* stopSession calls suspended at await sessionPromiseRef.current.then(...)
    env              \* process.env.API_KEY, navigator.mediaDevices and window.AudioContext are present

vars == <<raceIn, raceOut, csv, result, defaultDataCSV, data, error, activeView,
          screen, timerPending, reads, isLoading, fileName, lastEvent, dataBefore,
          termIn, unitIn, yearsOut, currentYear, filters, thresholds, filteredData,
          memo, isActive, isConnecting, isListening, isSpeaking, sessionPromiseRef,
          inputAudioContextRef, outputAudioContextRef, scriptProcessorRef,
          mediaStreamSourceRef, mediaStreamRef, sessions, stopsAwaiting, env>>

raceVars == <<raceIn, raceOut>>
sentenceVars == <<termIn, unitIn, yearsOut>>
dashVars == <<currentYear, filters, thresholds, filteredData, memo>>
flagVars == <<isActive, isConnecting, isListening, isSpeaking>>
refVars == <<sessionPromiseRef, inputAudioContextRef, outputAudioContextRef,
             scriptProcessorRef, mediaStreamSourceRef, mediaStreamRef>>
voiceVars == <<flagVars, refVars, sessions, stopsAwaiting, env>>
ingestVars == <<csv, result>>
appVars == <<defaultDataCSV, data, error, activeView, screen, timerPending,
             reads, isLoading, fileName, lastEvent, dataBefore>>

-----------------------------------------------------------------------------
(* JavaScript values *)

Null == "null"
undefined == <<"undefined">>
NaN == << >>
Undefined == <<0, 0>>

isNaN(x) == x = NaN

-----------------------------------------------------------------------------
(* Strings *)

UpperCase == <<"A","B","C","D","E","F","G","H","I","J","K","L","M",
               "N","O","P","Q","R","S","T","U","V","W","X","Y","Z">>
LowerCase == <<"a","b","c","d","e","f","g","h","i","j","k","l","m",
               "n","o","p","q","r","s","t","u","v","w","x","y","z">>
Digits == <<"0","1","2","3","4","5","6","7","8","9">>
WhiteSpace == {" ", "\t"}

charToLower(c) ==
    IF \E i \in 1..26 : UpperCase[i] = c
    THEN LowerCase[CHOOSE i \in 1..26 : UpperCase[i] = c]
    ELSE c

charToUpper(c) ==
    IF \E i \in 1..26 : LowerCase[i] = c
    THEN UpperCase[CHOOSE i \in 1..26 : LowerCase[i] = c]
    ELSE c

toLowerCase(s) == [i \in 1..Len(s) |-> charToLower(s[i])]

includes(s, sub) ==
    \E i \in 1..(Len(s) - Len(sub) + 1) : SubSeq(s, i, i + Len(sub) - 1) = sub

RECURSIVE trimStart(_)
trimStart(s) ==
    IF s # << >> /\ Head(s) \in WhiteSpace THEN trimStart(Tail(s)) ELSE s

RECURSIVE trimEnd(_)
trimEnd(s) ==
    IF s # << >> /\ s[Len(s)] \in WhiteSpace
    THEN trimEnd(SubSeq(s, 1, Len(s) - 1))
    ELSE s

trim(s) == trimEnd(trimStart(s))

\* s.slice(1)
slice1(s) == IF s = << >> THEN << >> ELSE Tail(s)

\* JavaScript truthiness of a string-or-undefined value
truthy(s) == s # undefined /\ s # << >>

-----------------------------------------------------------------------------
(* String literals of the source *)

sNA == <<"N","/","A">>
sNa == <<"N","/","a">>
sna == <<"n","/","a">>
sUnknown == <<"U","n","k","n","o","w","n">>
sHispanic == <<"H","i","s","p","a","n","i","c">>
sBlack == <<"B","l","a","c","k">>
sWhite == <<"W","h","i","t","e">>
sASIAN == <<"A","S","I","A","N">>
shispanic == <<"h","i","s","p","a","n","i","c">>
sblack == <<"b","l","a","c","k">>
swhite == <<"w","h","i","t","e">>
sasian == <<"a","s","i","a","n">>

-----------------------------------------------------------------------------
(* standardizeRace *)

\* variant: the "black" test made before the "hispanic" test
standardizeRace_blackFirst(race) ==
    IF race = undefined \/ race = << >> \/ race = sNA THEN sUnknown
    ELSE LET r == toLowerCase(race) IN
         IF includes(r, sblack) THEN sBlack
         ELSE IF includes(r, shispanic) THEN sHispanic
         ELSE IF includes(r, swhite) THEN sWhite
         ELSE IF includes(r, sasian) THEN sASIAN
         ELSE IF trim(r) = << >> THEN sUnknown
         ELSE LET standardized == <<charToUpper(r[1])>> \o slice1(r) IN
              IF standardized = sNa THEN sUnknown ELSE standardized

standardizeRace(race) ==
    IF race = undefined \/ race = << >> \/ race = sNA THEN sUnknown
    ELSE LET r == toLowerCase(race) IN
         IF includes(r, shispanic) THEN sHispanic
         ELSE IF includes(r, sblack) THEN sBlack
         ELSE IF includes(r, swhite) THEN sWhite
         ELSE IF includes(r, sasian) THEN sASIAN
         ELSE IF trim(r) = << >> THEN sUnknown
         ELSE LET standardized == <<charToUpper(r[1])>> \o slice1(r) IN
              IF standardized = sNa THEN sUnknown ELSE standardized

-----------------------------------------------------------------------------
(* Inputs of the race specification *)

MaxRaceLen == 3

RaceAlphabet == {"N", "n", "/", "A", "a", " ", "x"}

RECURSIVE StringsUpTo(_, _)
StringsUpTo(alphabet, n) ==
    IF n = 0 THEN {<< >>}
    ELSE LET shorter == StringsUpTo(alphabet, n - 1) IN
         shorter \cup {Append(s, c) : s \in {t \in shorter : Len(t) = n - 1}, c \in alphabet}

RaceSamples ==
    { undefined,
      <<"H","i","s","p","a","n","i","c","-","A","m","e","r","i","c","a","n">>,
      <<"b","l","a","c","k"," ","H","I","S","P","A","N","I","C">>,
      <<"W","h","i","t","e","/","B","l","a","c","k">>,
      <<"A","s","i","a","n"," ","w","h","i","t","e">>,
      <<"B","L","A","C","K">>,
      <<"W","h","i","t","e">>,
      <<"a","s","i","a","n">>,
      <<"C","a","u","c","a","s","i","a","n">>,
      <<"N","a","t","i","v","e"," ","A","m","e","r","i","c","a","n">>,
      <<"o","T","H","E","R">>,
      <<"U","n","k","n","o","w","n">>,
      <<" ","N","/","A">> }

RaceInputs == RaceSamples \cup StringsUpTo(RaceAlphabet, MaxRaceLen)

-----------------------------------------------------------------------------
(* Numbers *)

RECURSIVE GCD(_, _)
GCD(a, b) == IF b = 0 THEN a ELSE GCD(b, a % b)

Abs(n) == IF n < 0 THEN -n ELSE n

\* the fraction n/d (d > 0) in lowest terms
Frac(n, d) == LET g == GCD(Abs(n), d) IN <<n \div g, d \div g>>

\* Math.round of a fraction: the nearest integer, halves rounded up
MathRound(q) == (2 * q[1] + q[2]) \div (2 * q[2])

isDigit(c) == \E i \in 1..10 : Digits[i] = c
digitValue(c) == (CHOOSE i \in 1..10 : Digits[i] = c) - 1

RECURSIVE digitPrefix(_)
digitPrefix(s) ==
    IF s # << >> /\ isDigit(Head(s)) THEN <<Head(s)>> \o digitPrefix(Tail(s)) ELSE << >>

RECURSIVE digitsValue(_)
digitsValue(ds) ==
    IF ds = << >> THEN 0
    ELSE 10 * digitsValue(SubSeq(ds, 1, Len(ds) - 1)) + digitValue(ds[Len(ds)])

RECURSIVE Pow10(_)
Pow10(k) == IF k = 0 THEN 1 ELSE 10 * Pow10(k - 1)

\* String(x) of a string-or-undefined value
String(x) == IF x = undefined THEN <<"u","n","d","e","f","i","n","e","d">> ELSE x

\* parseInt(x, 10): leading white space, an optional sign, then the longest
\* run of decimal digits; NaN when there is no digit
parseInt(x) ==
    LET s == trimStart(String(x))
        signed == s # << >> /\ Head(s) \in {"+", "-"}
        body == IF signed THEN Tail(s) ELSE s
        ds == digitPrefix(body)
    IN IF ds = << >> THEN NaN
       ELSE IF signed /\ Head(s) = "-" THEN <<-digitsValue(ds)>>
       ELSE <<digitsValue(ds)>>

\* parseFloat(s) for decimal literals (digits, an optional fraction part);
\* exponent notation and "Infinity" do not occur in the inputs of the model
parseFloat(x) ==
    LET s == trimStart(String(x))
        signed == s # << >> /\ Head(s) \in {"+", "-"}
        body == IF signed THEN Tail(s) ELSE s
        ip == digitPrefix(body)
        rest == SubSeq(body, Len(ip) + 1, Len(body))
        fp == IF rest # << >> /\ Head(rest) = "." THEN digitPrefix(Tail(rest)) ELSE << >>
        magnitude == Frac(digitsValue(ip) * Pow10(Len(fp)) + digitsValue(fp), Pow10(Len(fp)))
    IN IF ip = << >> /\ fp = << >> THEN NaN
       ELSE IF signed /\ Head(s) = "-" THEN <<-magnitude[1], magnitude[2]>>
       ELSE magnitude

-----------------------------------------------------------------------------
(* Dates: new Date(text) for the ISO date-only form YYYY-MM-DD; any other    *)
(* text of the model's inputs is not a date.  A valid Date is <<y, m, d>>,   *)
(* an invalid one NaN.                                                       *)

DaysInMonth == <<31, 28, 31, 30, 31, 30, 31, 31, 30, 31, 30, 31>>

newDate(x) ==
    LET s == String(x)
        shaped == /\ Len(s) = 10
                  /\ s[5] = "-" /\ s[8] = "-"
                  /\ \A i \in {1, 2, 3, 4, 6, 7, 9, 10} : isDigit(s[i])
        y == digitsValue(SubSeq(s, 1, 4))
        m == digitsValue(SubSeq(s, 6, 7))
        d == digitsValue(SubSeq(s, 9, 10))
    IN IF shaped /\ m \in 1..12 /\ d >= 1 /\ d <= DaysInMonth[m]
       THEN <<y, m, d>>
       ELSE NaN

getFullYear(date) == date[1]

-----------------------------------------------------------------------------
(* convertSentenceToYears *)

slife == <<"l","i","f","e">>
syear == <<"y","e","a","r">>
smonth == <<"m","o","n","t","h">>
sday == <<"d","a","y">>

LifeSentence == 99

\* variant: a numeric term with an unrecognized unit gives 0
convertSentenceToYears_unknownUnitZero(term, unit) ==
    LET termStr == toLowerCase(String(term))
        unitLower == toLowerCase(String(unit))
        numericTerm == parseFloat(termStr)
    IN IF termStr = sna \/ termStr = << >> \/ unitLower = sna \/ unitLower = << >>
       THEN Undefined
       ELSE IF includes(termStr, slife) \/ includes(unitLower, slife)
       THEN <<LifeSentence, 1>>
       ELSE IF isNaN(numericTerm) THEN Undefined
       ELSE IF includes(unitLower, syear) THEN numericTerm
       ELSE IF includes(unitLower, smonth) THEN Frac(numericTerm[1], numericTerm[2] * 12)
       ELSE IF includes(unitLower, sday)
       THEN Frac(numericTerm[1] * 100, numericTerm[2] * 36525)
       ELSE <<0, 1>>

\* variant: the term parsed as a number before the "life" test, the "life"
\* test made on the unit only and after the other units
convertSentenceToYears_parseBeforeLife(term, unit) ==
    LET termStr == toLowerCase(String(term))
        unitLower == toLowerCase(String(unit))
        numericTerm == parseFloat(termStr)
    IN IF termStr = sna \/ termStr = << >> \/ unitLower = sna \/ unitLower = << >>
       THEN Undefined
       ELSE IF isNaN(numericTerm) THEN Undefined
       ELSE IF includes(unitLower, syear) THEN numericTerm
       ELSE IF includes(unitLower, smonth) THEN Frac(numericTerm[1], numericTerm[2] * 12)
       ELSE IF includes(unitLower, sday)
       THEN Frac(numericTerm[1] * 100, numericTerm[2] * 36525)
       ELSE IF includes(unitLower, slife) THEN <<LifeSentence, 1>>
       ELSE Undefined

convertSentenceToYears(term, unit) ==
    LET termStr == toLowerCase(String(term))
        unitLower == toLowerCase(String(unit))
        numericTerm == parseFloat(termStr)
    IN IF termStr = sna \/ termStr = << >> \/ unitLower = sna \/ unitLower = << >>
       THEN Undefined
       ELSE IF includes(termStr, slife) \/ includes(unitLower, slife)
       THEN <<LifeSentence, 1>>
       ELSE IF isNaN(numericTerm) THEN Undefined
       ELSE IF includes(unitLower, syear) THEN numericTerm
       ELSE IF includes(unitLower, smonth) THEN Frac(numericTerm[1], numericTerm[2] * 12)
       ELSE IF includes(unitLower, sday)
       THEN Frac(numericTerm[1] * 100, numericTerm[2] * 36525)
       ELSE Undefined

-----------------------------------------------------------------------------
(* parseAndCleanData *)

\* variant: the offense category and the participant id required as well
requiredHeaders_withOptional ==
    <<"ID_CASO", "ID_PARTICIPANTE_CASO", "FECHA_RECEPCION", "RAZA", "GENERO",
      "EDAD_AL_INCIDENTE", "CATEGORIA_DELITO", "DISPOSICION_CARGO", "TIPO_SENTENCIA",
      "TERMINO_COMPROMISO", "UNIDAD_COMPROMISO", "DURACION_CASO_EN_DIAS">>

requiredHeaders ==
    <<"ID_CASO", "FECHA_RECEPCION", "RAZA", "GENERO", "EDAD_AL_INCIDENTE",
      "DISPOSICION_CARGO", "TIPO_SENTENCIA", "TERMINO_COMPROMISO",
      "UNIDAD_COMPROMISO", "DURACION_CASO_EN_DIAS">>

EmptyCsvError == <<"El archivo CSV esta vacio o tiene un formato incorrecto.">>
MissingHeadersError(missingHeaders) ==
    <<"Faltan las siguientes columnas obligatorias: ", missingHeaders>>
NoValidRecordsError ==
    <<"No se encontraron registros validos en el archivo. Verifique las columnas y el formato de los datos.">>

\* array.includes(x)
arrayIncludes(array, x) == \E i \in 1..Len(array) : array[i] = x

\* row[h]: the cell, or undefined when the table has no such column
cell(row, h) == IF h \in DOMAIN row THEN row[h] ELSE undefined

\* a || b on string-or-undefined values
orElse(a, b) == IF truthy(a) THEN a ELSE b

\* arr.slice().sort((a, b) => a - b)
RECURSIVE insertSorted(_, _)
insertSorted(sorted, x) ==
    IF sorted = << >> THEN <<x>>
    ELSE IF x < Head(sorted) THEN <<x>> \o sorted
    ELSE <<Head(sorted)>> \o insertSorted(Tail(sorted), x)

RECURSIVE sortAscending(_)
sortAscending(arr) ==
    IF arr = << >> THEN << >>
    ELSE insertSorted(sortAscending(SubSeq(arr, 1, Len(arr) - 1)), arr[Len(arr)])

\* variant: the upper middle value taken for an even count
calculateMedian_upperMiddle(arr) ==
    IF Len(arr) = 0 THEN <<0, 1>>
    ELSE LET sorted == sortAscending(arr)
             mid == Len(sorted) \div 2
         IN <<sorted[mid + 1], 1>>

\* the median as a fraction; arrays are indexed from 1 here, from 0 in the source
calculateMedian(arr) ==
    IF Len(arr) = 0 THEN <<0, 1>>
    ELSE LET sorted == sortAscending(arr)
             mid == Len(sorted) \div 2
         IN IF Len(sorted) % 2 = 0
            THEN Frac(sorted[mid] + sorted[mid + 1], 2)
            ELSE <<sorted[mid + 1], 1>>

isValidAge(age) == ~isNaN(age) /\ age[1] > 0 /\ age[1] < 120
isValidDuration(duration) == ~isNaN(duration) /\ duration[1] >= 0

\* the numbers of the parsed values that pass the filter
numbersOf(parsedValues) == [i \in 1..Len(parsedValues) |-> parsedValues[i][1]]

validAges(rows) ==
    numbersOf(SelectSeq([i \in 1..Len(rows) |-> parseInt(cell(rows[i], "EDAD_AL_INCIDENTE"))],
                        isValidAge))

validDurations(rows) ==
    numbersOf(SelectSeq([i \in 1..Len(rows) |-> parseInt(cell(rows[i], "DURACION_CASO_EN_DIAS"))],
                        isValidDuration))

FallbackAge == 30
FallbackDuration == 365

\* Math.round(calculateMedian(validAges)) || 30
medianAge(rows) ==
    LET m == MathRound(calculateMedian(validAges(rows))) IN
    IF m # 0 THEN m ELSE FallbackAge

\* Math.round(calculateMedian(validDurations)) || 365
medianDuration(rows) ==
    LET m == MathRound(calculateMedian(validDurations(rows))) IN
    IF m # 0 THEN m ELSE FallbackDuration

naToEmpty(x) == IF x = sNA THEN << >> ELSE x
naToUnknown(x) == IF x = sNA THEN sUnknown ELSE x

\* variant: a row whose gender is "Unknown" is kept
cleanRow_keepUnknownGender(row, mAge, mDuration) ==
    LET fechaRecepcion == newDate(cell(row, "FECHA_RECEPCION"))
        parsedAge == parseInt(cell(row, "EDAD_AL_INCIDENTE"))
        ageAtIncident == IF isValidAge(parsedAge) THEN parsedAge[1] ELSE mAge
        parsedDuration == parseInt(cell(row, "DURACION_CASO_EN_DIAS"))
        caseDuration == IF isValidDuration(parsedDuration) THEN parsedDuration[1] ELSE mDuration
        race == standardizeRace(cell(row, "RAZA"))
        gender == naToUnknown(cell(row, "GENERO"))
        termino == naToEmpty(cell(row, "TERMINO_COMPROMISO"))
        unidad == naToEmpty(cell(row, "UNIDAD_COMPROMISO"))
    IN IF isNaN(fechaRecepcion) THEN << >>
       ELSE IF race = sUnknown THEN << >>
       ELSE << [ ID_CASO |-> orElse(cell(row, "ID_CASO"), << >>),
                 ID_PARTICIPANTE_CASO |-> orElse(cell(row, "ID_PARTICIPANTE_CASO"), << >>),
                 FECHA_RECEPCION |-> fechaRecepcion,
                 RAZA |-> race,
                 GENERO |-> gender,
                 EDAD_AL_INCIDENTE |-> ageAtIncident,
                 CATEGORIA_DELITO |->
                     orElse(cell(row, "CATEGORIA_DELITO_ACTUALIZADA"),
                            orElse(cell(row, "CATEGORIA_DELITO"), sUnknown)),
                 DISPOSICION_CARGO |-> orElse(cell(row, "DISPOSICION_CARGO"), sUnknown),
                 TIPO_SENTENCIA |-> orElse(cell(row, "TIPO_SENTENCIA"), sUnknown),
                 TERMINO_COMPROMISO |-> termino,
                 UNIDAD_COMPROMISO |-> unidad,
                 DURACION_CASO_EN_DIAS |-> caseDuration,
                 CIUDAD_INCIDENTE |-> naToUnknown(cell(row, "CIUDAD_INCIDENTE")),
                 JUEZ_SENTENCIA |-> naToUnknown(cell(row, "JUEZ_SENTENCIA")),
                 SENTENCE_IN_YEARS |-> convertSentenceToYears(termino, unidad) ] >>

\* variant: the parsed age kept whatever its range, 0 when it does not parse
cleanRow_ageOrZero(row, mAge, mDuration) ==
    LET fechaRecepcion == newDate(cell(row, "FECHA_RECEPCION"))
        parsedAge == parseInt(cell(row, "EDAD_AL_INCIDENTE"))
        ageAtIncident == IF ~isNaN(parsedAge) THEN parsedAge[1] ELSE 0
        parsedDuration == parseInt(cell(row, "DURACION_CASO_EN_DIAS"))
        caseDuration == IF isValidDuration(parsedDuration) THEN parsedDuration[1] ELSE mDuration
        race == standardizeRace(cell(row, "RAZA"))
        gender == naToUnknown(cell(row, "GENERO"))
        termino == naToEmpty(cell(row, "TERMINO_COMPROMISO"))
        unidad == naToEmpty(cell(row, "UNIDAD_COMPROMISO"))
    IN IF isNaN(fechaRecepcion) THEN << >>
       ELSE IF race = sUnknown \/ gender = sUnknown THEN << >>
       ELSE << [ ID_CASO |-> orElse(cell(row, "ID_CASO"), << >>),
                 ID_PARTICIPANTE_CASO |-> orElse(cell(row, "ID_PARTICIPANTE_CASO"), << >>),
                 FECHA_RECEPCION |-> fechaRecepcion,
                 RAZA |-> race,
                 GENERO |-> gender,
                 EDAD_AL_INCIDENTE |-> ageAtIncident,
                 CATEGORIA_DELITO |->
                     orElse(cell(row, "CATEGORIA_DELITO_ACTUALIZADA"),
                            orElse(cell(row, "CATEGORIA_DELITO"), sUnknown)),
                 DISPOSICION_CARGO |-> orElse(cell(row, "DISPOSICION_CARGO"), sUnknown),
                 TIPO_SENTENCIA |-> orElse(cell(row, "TIPO_SENTENCIA"), sUnknown),
                 TERMINO_COMPROMISO |-> termino,
                 UNIDAD_COMPROMISO |-> unidad,
                 DURACION_CASO_EN_DIAS |-> caseDuration,
                 CIUDAD_INCIDENTE |-> naToUnknown(cell(row, "CIUDAD_INCIDENTE")),
                 JUEZ_SENTENCIA |-> naToUnknown(cell(row, "JUEZ_SENTENCIA")),
                 SENTENCE_IN_YEARS |-> convertSentenceToYears(termino, unidad) ] >>

\* the callback of parsed.map in pass 2: << >> stands for the null it returns
\* for a skipped row, <<caseData>> for a kept one
cleanRow(row, mAge, mDuration) ==
    LET fechaRecepcion == newDate(cell(row, "FECHA_RECEPCION"))
        parsedAge == parseInt(cell(row, "EDAD_AL_INCIDENTE"))
        ageAtIncident == IF isValidAge(parsedAge) THEN parsedAge[1] ELSE mAge
        parsedDuration == parseInt(cell(row, "DURACION_CASO_EN_DIAS"))
        caseDuration == IF isValidDuration(parsedDuration) THEN parsedDuration[1] ELSE mDuration
        race == standardizeRace(cell(row, "RAZA"))
        gender == naToUnknown(cell(row, "GENERO"))
        termino == naToEmpty(cell(row, "TERMINO_COMPROMISO"))
        unidad == naToEmpty(cell(row, "UNIDAD_COMPROMISO"))
    IN IF isNaN(fechaRecepcion) THEN << >>
       ELSE IF race = sUnknown \/ gender = sUnknown THEN << >>
       ELSE << [ ID_CASO |-> orElse(cell(row, "ID_CASO"), << >>),
                 ID_PARTICIPANTE_CASO |-> orElse(cell(row, "ID_PARTICIPANTE_CASO"), << >>),
                 FECHA_RECEPCION |-> fechaRecepcion,
                 RAZA |-> race,
                 GENERO |-> gender,
                 EDAD_AL_INCIDENTE |-> ageAtIncident,
                 CATEGORIA_DELITO |->
                     orElse(cell(row, "CATEGORIA_DELITO_ACTUALIZADA"),
                            orElse(cell(row, "CATEGORIA_DELITO"), sUnknown)),
                 DISPOSICION_CARGO |-> orElse(cell(row, "DISPOSICION_CARGO"), sUnknown),
                 TIPO_SENTENCIA |-> orElse(cell(row, "TIPO_SENTENCIA"), sUnknown),
                 TERMINO_COMPROMISO |-> termino,
                 UNIDAD_COMPROMISO |-> unidad,
                 DURACION_CASO_EN_DIAS |-> caseDuration,
                 CIUDAD_INCIDENTE |-> naToUnknown(cell(row, "CIUDAD_INCIDENTE")),
                 JUEZ_SENTENCIA |-> naToUnknown(cell(row, "JUEZ_SENTENCIA")),
                 SENTENCE_IN_YEARS |-> convertSentenceToYears(termino, unidad) ] >>

\* parsed.map(callback).filter(d => d !== null)
RECURSIVE cleanRows(_, _, _)
cleanRows(rows, mAge, mDuration) ==
    IF rows = << >> THEN << >>
    ELSE cleanRow(Head(rows), mAge, mDuration) \o cleanRows(Tail(rows), mAge, mDuration)

\* variant: the check for an empty cleanedData left out
parseAndCleanData_noEmptyCheck(parsed) ==
    IF parsed.columns = undefined \/ Len(parsed.rows) = 0
    THEN [data |-> << >>, error |-> EmptyCsvError]
    ELSE LET missingHeaders ==
                 SelectSeq(requiredHeaders, LAMBDA h : ~arrayIncludes(parsed.columns, h))
         IN IF Len(missingHeaders) > 0
            THEN [data |-> << >>, error |-> MissingHeadersError(missingHeaders)]
            ELSE LET cleanedData == cleanRows(parsed.rows, medianAge(parsed.rows),
                                              medianDuration(parsed.rows))
                 IN [data |-> cleanedData, error |-> Null]

\* parsed is the value of d3.csvParse(csvText): the header names in
\* parsed.columns and one object per data row in parsed.rows
\* variant: a dropped row fails the call
parseAndCleanData_errorOnDroppedRow(parsed) ==
    IF parsed.columns = undefined \/ Len(parsed.rows) = 0
    THEN [data |-> << >>, error |-> EmptyCsvError]
    ELSE LET missingHeaders ==
                 SelectSeq(requiredHeaders, LAMBDA h : ~arrayIncludes(parsed.columns, h))
         IN IF Len(missingHeaders) > 0
            THEN [data |-> << >>, error |-> MissingHeadersError(missingHeaders)]
            ELSE LET cleanedData == cleanRows(parsed.rows, medianAge(parsed.rows),
                                              medianDuration(parsed.rows))
                 IN IF Len(cleanedData) < Len(parsed.rows)
                    THEN [data |-> << >>, error |-> NoValidRecordsError]
                    ELSE [data |-> cleanedData, error |-> Null]

\* variant: the required columns are looked up before the empty check
parseAndCleanData_schemaFirst(parsed) ==
    LET missingHeaders ==
            SelectSeq(requiredHeaders, LAMBDA h : ~arrayIncludes(parsed.columns, h))
    IN IF Len(missingHeaders) > 0
       THEN [data |-> << >>, error |-> MissingHeadersError(missingHeaders)]
       ELSE IF parsed.columns = undefined \/ Len(parsed.rows) = 0
       THEN [data |-> << >>, error |-> EmptyCsvError]
       ELSE LET cleanedData == cleanRows(parsed.rows, medianAge(parsed.rows),
                                         medianDuration(parsed.rows))
            IN IF Len(cleanedData) = 0
               THEN [data |-> << >>, error |-> NoValidRecordsError]
               ELSE [data |-> cleanedData, error |-> Null]

parseAndCleanData(parsed) ==
    IF parsed.columns = undefined \/ Len(parsed.rows) = 0
    THEN [data |-> << >>, error |-> EmptyCsvError]
    ELSE LET missingHeaders ==
                 SelectSeq(requiredHeaders, LAMBDA h : ~arrayIncludes(parsed.columns, h))
         IN IF Len(missingHeaders) > 0
            THEN [data |-> << >>, error |-> MissingHeadersError(missingHeaders)]
            ELSE LET cleanedData == cleanRows(parsed.rows, medianAge(parsed.rows),
                                              medianDuration(parsed.rows))
                 IN IF Len(cleanedData) = 0
                    THEN [data |-> << >>, error |-> NoValidRecordsError]
                    ELSE [data |-> cleanedData, error |-> Null]

-----------------------------------------------------------------------------
(* Cell texts of the input tables *)

cDate2019 == <<"2","0","1","9","-","0","3","-","0","5">>
cDate2021 == <<"2","0","2","1","-","1","1","-","2","0">>
cNotADate == <<"p","e","n","d","i","n","g">>
cMale == <<"M","a","l","e">>
cFemale == <<"F","e","m","a","l","e">>
c31 == <<"3","1">>
c20 == <<"2","0">>
c22 == <<"2","2">>
c24 == <<"2","4">>
c26 == <<"2","6">>
c150 == <<"1","5","0">>
c0 == <<"0">>
c120 == <<"1","2","0">>
c119 == <<"1","1","9">>
cMinus5 == <<"-","5">>
c45y == <<"4","5"," ","y","e","a","r","s">>
c100 == <<"1","0","0">>
c7 == <<"7">>
c1200 == <<"1",",","2","0","0">>
cGuilty == <<"P","l","e","a"," ","O","f"," ","G","u","i","l","t","y">>
cPrison == <<"P","r","i","s","o","n">>
c2 == <<"2">>
c18 == <<"1","8">>
cYears == <<"Y","e","a","r","(","s",")">>
cMonths == <<"M","o","n","t","h","s">>
cNaturalLife == <<"N","a","t","u","r","a","l"," ","L","i","f","e">>
cTerm == <<"T","e","r","m">>
cChicago == <<"C","h","i","c","a","g","o">>
cJudge == <<"J","u","d","g","e"," ","A">>
cNarcotics == <<"N","a","r","c","o","t","i","c","s">>
cDrugs == <<"D","r","u","g","s">>
cId1 == <<"C","-","1">>
cP1 == <<"P","-","1">>
cHispanicAmerican == <<"H","i","s","p","a","n","i","c","-","A","m","e","r","i","c","a","n">>
cWHITE == <<"W","H","I","T","E">>
cOther == <<"o","t","h","e","r">>
cBlank == <<" ">>

-----------------------------------------------------------------------------
(* Input tables *)

MaxRows == 3

\* the ten required columns, under their names in the Spanish naming scheme
RequiredSet ==
    {"ID_CASO", "FECHA_RECEPCION", "RAZA", "GENERO", "EDAD_AL_INCIDENTE",
     "DISPOSICION_CARGO", "TIPO_SENTENCIA", "TERMINO_COMPROMISO",
     "UNIDAD_COMPROMISO", "DURACION_CASO_EN_DIAS"}

OptionalHeaders ==
    {"ID_PARTICIPANTE_CASO", "CATEGORIA_DELITO", "CATEGORIA_DELITO_ACTUALIZADA",
     "CIUDAD_INCIDENTE", "JUEZ_SENTENCIA"}

\* the names the same columns carry in the English naming scheme
EnglishHeaders ==
    {"CASE_ID", "RECEIVED_DATE", "RACE", "GENDER", "AGE_AT_INCIDENT",
     "CHARGE_DISPOSITION", "SENTENCE_TYPE", "COMMITMENT_TERM", "COMMITMENT_UNIT",
     "LENGTH_OF_CASE_in_Days"}

HeaderOrder ==
    <<"ID_CASO", "FECHA_RECEPCION", "RAZA", "GENERO", "EDAD_AL_INCIDENTE",
      "DISPOSICION_CARGO", "TIPO_SENTENCIA", "TERMINO_COMPROMISO",
      "UNIDAD_COMPROMISO", "DURACION_CASO_EN_DIAS",
      "ID_PARTICIPANTE_CASO", "CATEGORIA_DELITO", "CATEGORIA_DELITO_ACTUALIZADA",
      "CIUDAD_INCIDENTE", "JUEZ_SENTENCIA",
      "CASE_ID", "RECEIVED_DATE", "RACE", "GENDER", "AGE_AT_INCIDENT",
      "CHARGE_DISPOSITION", "SENTENCE_TYPE", "COMMITMENT_TERM", "COMMITMENT_UNIT",
      "LENGTH_OF_CASE_in_Days">>

\* the header row holding the columns of a set, in file order
columnsOf(headerSet) == SelectSeq(HeaderOrder, LAMBDA h : h \in headerSet)

BaseCell ==
    [h \in {HeaderOrder[i] : i \in 1..Len(HeaderOrder)} |->
        CASE h \in {"ID_CASO", "CASE_ID"} -> cId1
          [] h = "ID_PARTICIPANTE_CASO" -> cP1
          [] h \in {"FECHA_RECEPCION", "RECEIVED_DATE"} -> cDate2019
          [] h \in {"RAZA", "RACE"} -> sBlack
          [] h \in {"GENERO", "GENDER"} -> cMale
          [] h \in {"EDAD_AL_INCIDENTE", "AGE_AT_INCIDENT"} -> c31
          [] h \in {"DISPOSICION_CARGO", "CHARGE_DISPOSITION"} -> cGuilty
          [] h \in {"TIPO_SENTENCIA", "SENTENCE_TYPE"} -> cPrison
          [] h \in {"TERMINO_COMPROMISO", "COMMITMENT_TERM"} -> c2
          [] h \in {"UNIDAD_COMPROMISO", "COMMITMENT_UNIT"} -> cYears
          [] h \in {"DURACION_CASO_EN_DIAS", "LENGTH_OF_CASE_in_Days"} -> c100
          [] h = "CATEGORIA_DELITO" -> cNarcotics
          [] h = "CATEGORIA_DELITO_ACTUALIZADA" -> cDrugs
          [] h = "CIUDAD_INCIDENTE" -> cChicago
          [] h = "JUEZ_SENTENCIA" -> cJudge]

\* a data row over the columns of headerSet: the base cells, except those a
\* row kind (a function from some headers to cell texts) overrides
rowOf(headerSet, kind) ==
    [h \in headerSet |-> IF h \in DOMAIN kind THEN kind[h] ELSE BaseCell[h]]

BaseKind == << >>

\* kinds that exercise the median, the imputation and the row drops
StatKinds ==
    { BaseKind,
      "RAZA" :> sNA,
      "FECHA_RECEPCION" :> cNotADate,
      "EDAD_AL_INCIDENTE" :> c150,
      "EDAD_AL_INCIDENTE" :> c20,
      "DURACION_CASO_EN_DIAS" :> c0,
      "DURACION_CASO_EN_DIAS" :> sNA,
      "DURACION_CASO_EN_DIAS" :> c7 }

\* kinds that vary one cell of a single row
CellKinds ==
    StatKinds \cup
    { "RAZA" :> cHispanicAmerican, "RAZA" :> cWHITE, "RAZA" :> cOther,
      "RAZA" :> << >>, "RAZA" :> cBlank, "RAZA" :> sUnknown, "RAZA" :> sna,
      "GENERO" :> sNA, "GENERO" :> << >>, "GENERO" :> sUnknown, "GENERO" :> cFemale,
      "FECHA_RECEPCION" :> << >>, "FECHA_RECEPCION" :> sNA,
      "FECHA_RECEPCION" :> cDate2021,
      "EDAD_AL_INCIDENTE" :> sNA, "EDAD_AL_INCIDENTE" :> << >>,
      "EDAD_AL_INCIDENTE" :> c0, "EDAD_AL_INCIDENTE" :> c120,
      "EDAD_AL_INCIDENTE" :> c119, "EDAD_AL_INCIDENTE" :> cMinus5,
      "EDAD_AL_INCIDENTE" :> c45y,
      "DURACION_CASO_EN_DIAS" :> << >>, "DURACION_CASO_EN_DIAS" :> cMinus5,
      "DURACION_CASO_EN_DIAS" :> c1200,
      "DISPOSICION_CARGO" :> sNA, "DISPOSICION_CARGO" :> << >>,
      "TIPO_SENTENCIA" :> sNA, "TIPO_SENTENCIA" :> << >>,
      "CATEGORIA_DELITO" :> sNA, "CATEGORIA_DELITO" :> << >>,
      "CATEGORIA_DELITO_ACTUALIZADA" :> sNA, "CATEGORIA_DELITO_ACTUALIZADA" :> << >>,
      ("CATEGORIA_DELITO_ACTUALIZADA" :> << >>) @@ ("CATEGORIA_DELITO" :> << >>),
      "CIUDAD_INCIDENTE" :> sNA, "CIUDAD_INCIDENTE" :> << >>,
      "JUEZ_SENTENCIA" :> sNA, "JUEZ_SENTENCIA" :> << >>,
      "ID_CASO" :> << >>, "ID_PARTICIPANTE_CASO" :> << >>,
      "TERMINO_COMPROMISO" :> sNA, "TERMINO_COMPROMISO" :> cNaturalLife,
      "TERMINO_COMPROMISO" :> << >>,
      "UNIDAD_COMPROMISO" :> sNA, "UNIDAD_COMPROMISO" :> cMonths,
      "UNIDAD_COMPROMISO" :> cTerm,
      ("TERMINO_COMPROMISO" :> c18) @@ ("UNIDAD_COMPROMISO" :> cMonths) }

table(headerSet, kinds) ==
    [columns |-> columnsOf(headerSet),
     rows |-> [i \in 1..Len(kinds) |-> rowOf(headerSet, kinds[i])]]

FullHeaders == RequiredSet \cup OptionalHeaders

\* one base row under every choice of required columns, with and without
\* the optional columns and the English-named columns
SchemaTables ==
    { table(req \cup opt \cup alt, <<BaseKind>>) :
        req \in SUBSET RequiredSet,
        opt \in {{}, OptionalHeaders},
        alt \in {{}, EnglishHeaders, {"RACE"}} } \ {table({}, <<BaseKind>>)}

\* one row of every kind, with and without the optional columns
OneRowTables ==
    { table(hs, <<k>>) : hs \in {FullHeaders, RequiredSet}, k \in CellKinds }

SeqsUpTo(S, n) == UNION {[1..k -> S] : k \in 0..n}

\* up to MaxRows rows of the statistics kinds; the empty sequence is the
\* file that has a header row and no data row
MultiRowTables == { table(FullHeaders, ks) : ks \in SeqsUpTo(StatKinds, MaxRows) }

ageKind(text) == "EDAD_AL_INCIDENTE" :> text

SampleTables ==
    { [columns |-> << >>, rows |-> << >>],
      table(RequiredSet \ {"RAZA", "GENERO"}, << >>),
      table(FullHeaders, <<"RAZA" :> sNA, "FECHA_RECEPCION" :> cNotADate, "GENERO" :> sNA>>),
      table(FullHeaders, <<ageKind(c20), ageKind(c22), ageKind(c24), ageKind(c26),
                           ageKind(c150)>>),
      table(FullHeaders, <<ageKind(c150), ageKind(c26), ageKind(c20), ageKind(c24),
                           ageKind(c22), "RAZA" :> sNA>>) }

Tables == SchemaTables \cup OneRowTables \cup MultiRowTables \cup SampleTables

NoResult == [none |-> TRUE]

-----------------------------------------------------------------------------
(* Specification of standardizeRace as a function of its argument *)

\* the App is not part of this specification: its state stays as constructed,
\* with no timer and no file read outstanding
AppIdle ==
    /\ defaultDataCSV = [columns |-> << >>, rows |-> << >>]
    /\ data = Null /\ error = Null /\ activeView = "home" /\ screen = "upload"
    /\ timerPending = FALSE /\ reads = << >> /\ isLoading = FALSE
    /\ fileName = Null /\ lastEvent = "none" /\ dataBefore = Null

\* convertSentenceToYears is not called on its own
SentenceIdle == termIn = << >> /\ unitIn = << >> /\ yearsOut = "none"

\* VoiceAssistant is not part of the specification
VoiceIdle ==
    /\ isActive = FALSE /\ isConnecting = FALSE
    /\ isListening = FALSE /\ isSpeaking = FALSE
    /\ sessionPromiseRef = 0 /\ inputAudioContextRef = 0 /\ outputAudioContextRef = 0
    /\ scriptProcessorRef = 0 /\ mediaStreamSourceRef = 0 /\ mediaStreamRef = 0
    /\ sessions = << >> /\ stopsAwaiting = {}
    /\ env = NoResult

\* the state of the Dashboard component and of its views is not part of the
\* specification
DashboardIdle ==
    /\ currentYear = 0
    /\ filters = NoResult /\ thresholds = NoResult
    /\ filteredData = << >> /\ memo = NoResult

InitRace ==
    /\ raceIn \in RaceInputs
    /\ raceOut = "none"
    /\ csv = [columns |-> << >>, rows |-> << >>]
    /\ result = NoResult
    /\ AppIdle
    /\ SentenceIdle
    /\ VoiceIdle
    /\ DashboardIdle

StandardizeRace ==
    /\ raceOut = "none"
    /\ raceOut' = standardizeRace(raceIn)
    /\ UNCHANGED <<raceIn, ingestVars, appVars, sentenceVars, voiceVars, dashVars>>

NextRace == StandardizeRace

SpecRace == InitRace /\ [][NextRace]_vars

-----------------------------------------------------------------------------
(* Specification of parseAndCleanData as a function of the parsed table *)

InitIngest ==
    /\ csv \in Tables
    /\ result = NoResult
    /\ raceIn = undefined /\ raceOut = "none"
    /\ AppIdle
    /\ SentenceIdle
    /\ VoiceIdle
    /\ DashboardIdle

Ingest ==
    /\ result = NoResult
    /\ result' = parseAndCleanData(csv)
    /\ UNCHANGED <<csv, raceVars, appVars, sentenceVars, voiceVars, dashVars>>

NextIngest == Ingest

SpecIngest == InitIngest /\ [][NextIngest]_vars

-----------------------------------------------------------------------------
(* Vocabulary of the properties of parseAndCleanData *)

columnSet(parsed) == {parsed.columns[i] : i \in 1..Len(parsed.columns)}

\* the call has returned and it got as far as the transform pass
RowsProcessed ==
    /\ result # NoResult
    /\ (result.error = Null \/ result.error = NoValidRecordsError)

resolvedGender(row) == IF row["GENERO"] = sNA THEN sUnknown ELSE row["GENERO"]

retains(row) ==
    /\ ~isNaN(newDate(row["FECHA_RECEPCION"]))
    /\ standardizeRace(row["RAZA"]) # sUnknown
    /\ resolvedGender(row) # sUnknown

\* the positions of the retained rows, ascending
retainedPositions(rows) ==
    SelectSeq([i \in 1..Len(rows) |-> i], LAMBDA i : retains(rows[i]))

\* the input row the k-th canonical record was made from
sourceRow(k) == csv.rows[retainedPositions(csv.rows)[k]]

count(seq, Test(_)) == Cardinality({i \in 1..Len(seq) : Test(seq[i])})

\* v is the k-th smallest element of the non-empty sequence seq
isKthSmallest(seq, k, v) ==
    /\ \E i \in 1..Len(seq) : seq[i] = v
    /\ count(seq, LAMBDA x : x < v) < k
    /\ count(seq, LAMBDA x : x <= v) >= k

\* the median of a non-empty sequence, as the claim defines it
isMedianOf(seq, q) ==
    LET n == Len(seq) IN
    IF n % 2 = 1
    THEN \E v \in {seq[i] : i \in 1..n} :
            isKthSmallest(seq, (n + 1) \div 2, v) /\ q = <<v, 1>>
    ELSE \E a, b \in {seq[i] : i \in 1..n} :
            /\ isKthSmallest(seq, n \div 2, a)
            /\ isKthSmallest(seq, n \div 2 + 1, b)
            /\ q[1] * 2 = (a + b) * q[2]

rawAge(row) == parseInt(row["EDAD_AL_INCIDENTE"])
rawDuration(row) == parseInt(row["DURACION_CASO_EN_DIAS"])

agesOfAllRows == validAges(csv.rows)
durationsOfAllRows == validDurations(csv.rows)

-----------------------------------------------------------------------------
(* C1 *)

\* C1: every call of parseAndCleanData returns either a null error with a
\* non-empty record list or a non-null error with an empty record list.
C1_ErrorXorRecords ==
    result # NoResult =>
        \/ result.error = Null /\ Len(result.data) > 0
        \/ result.error # Null /\ Len(result.data) = 0

\* a call that dropped a row and still returned records
C1_Witness ==
    /\ result # NoResult
    /\ result.error = Null
    /\ Len(result.data) > 0
    /\ Len(result.data) < Len(csv.rows)

-----------------------------------------------------------------------------
(* C3 *)

-----------------------------------------------------------------------------
(* C5 *)

recordMatchesRow(rec, row) ==
    /\ rec.FECHA_RECEPCION = newDate(row["FECHA_RECEPCION"])
    /\ rec.RAZA = standardizeRace(row["RAZA"])
    /\ rec.GENERO = row["GENERO"]
    /\ rec.ID_CASO = row["ID_CASO"]
    /\ isValidAge(rawAge(row)) => rec.EDAD_AL_INCIDENTE = rawAge(row)[1]
    /\ isValidDuration(rawDuration(row)) => rec.DURACION_CASO_EN_DIAS = rawDuration(row)[1]

\* C5: the canonical records are, in input order, exactly the rows whose
\* received date is valid and whose resolved race and gender are not
\* "Unknown"; race "N/A" is dropped, "Hispanic-American" is kept as "Hispanic".
C5_RetainedRows ==
    RowsProcessed =>
        LET kept == retainedPositions(csv.rows) IN
        /\ Len(result.data) = Len(kept)
        /\ \A k \in 1..Len(result.data) :
              /\ recordMatchesRow(result.data[k], csv.rows[kept[k]])
              /\ ~isNaN(result.data[k].FECHA_RECEPCION)
              /\ result.data[k].RAZA # sUnknown
              /\ result.data[k].GENERO # sUnknown
        /\ \A i \in 1..Len(csv.rows) :
              /\ csv.rows[i]["RAZA"] = sNA => ~arrayIncludes(kept, i)
              /\ (csv.rows[i]["RAZA"] = cHispanicAmerican /\ arrayIncludes(kept, i)) =>
                    \E k \in 1..Len(result.data) :
                        kept[k] = i /\ result.data[k].RAZA = sHispanic

\* the first and the third of three rows are retained, the second is dropped
C5_Witness ==
    /\ RowsProcessed
    /\ Len(csv.rows) = 3
    /\ retainedPositions(csv.rows) = <<1, 3>>
    /\ Len(result.data) = 2
    /\ result.data[1].EDAD_AL_INCIDENTE # result.data[2].EDAD_AL_INCIDENTE

-----------------------------------------------------------------------------
(* C6 *)

\* C6: every canonical record's age is an integer strictly between 0 and
\* 120; a raw age that does not parse, is <= 0 or is >= 120 is replaced by
\* the median age of the load (30 when no row has a valid age).
C6_AgeInRange ==
    RowsProcessed =>
        \A k \in 1..Len(result.data) :
            LET raw == rawAge(sourceRow(k))
                age == result.data[k].EDAD_AL_INCIDENTE
            IN /\ age \in 1..119
               /\ (isNaN(raw) \/ raw[1] <= 0 \/ raw[1] >= 120) =>
                     age = IF agesOfAllRows = << >>
                           THEN FallbackAge
                           ELSE MathRound(calculateMedian(agesOfAllRows))

\* a retained row whose raw age 150 was replaced by the median of the others
C6_Witness ==
    /\ RowsProcessed
    /\ \E k \in 1..Len(result.data) :
          /\ rawAge(sourceRow(k)) = <<150>>
          /\ result.data[k].EDAD_AL_INCIDENTE = 26

-----------------------------------------------------------------------------
(* C7 *)

AgeExampleTable ==
    table(FullHeaders, <<ageKind(c20), ageKind(c22), ageKind(c24), ageKind(c26),
                         ageKind(c150)>>)

\* C7: the imputation median is the median of the valid values of all
\* input rows, dropped rows included: the middle value of the ascending
\* order for an odd count, the mean of the two middle values for an even
\* count; every imputed age is that median, rounded; for the valid ages
\* 20, 22, 24, 26 the median is 23 and the row with age 150 gets age 23.
C7_MedianOfAllRows ==
    RowsProcessed =>
        /\ agesOfAllRows # << >> =>
              /\ isMedianOf(agesOfAllRows, calculateMedian(agesOfAllRows))
              /\ \A k \in 1..Len(result.data) :
                    ~isValidAge(rawAge(sourceRow(k))) =>
                        \E q \in {calculateMedian(agesOfAllRows)} :
                            /\ isMedianOf(agesOfAllRows, q)
                            /\ result.data[k].EDAD_AL_INCIDENTE = MathRound(q)
        /\ durationsOfAllRows # << >> =>
              isMedianOf(durationsOfAllRows, calculateMedian(durationsOfAllRows))
        /\ csv = AgeExampleTable =>
              /\ calculateMedian(agesOfAllRows) = <<23, 1>>
              /\ result.data[5].EDAD_AL_INCIDENTE = 23

\* the valid ages are 31 (a row that is dropped) and 20: the row with age
\* 150 gets the mean of the two, 25.5, rounded
C7_Witness ==
    /\ RowsProcessed
    /\ Len(csv.rows) = 3
    /\ agesOfAllRows = <<31, 20>>
    /\ ~retains(csv.rows[1])
    /\ Len(result.data) = 2
    /\ result.data[2].EDAD_AL_INCIDENTE = 26

-----------------------------------------------------------------------------
(* C4 *)

\* the second naming scheme: the English name of every column, as the
\* column map of the earlier parser lists them
columnMap ==
    [ CASE_ID |-> "ID_CASO",
      CASE_PARTICIPANT_ID |-> "ID_PARTICIPANTE_CASO",
      RECEIVED_DATE |-> "FECHA_RECEPCION",
      RACE |-> "RAZA",
      GENDER |-> "GENERO",
      AGE_AT_INCIDENT |-> "EDAD_AL_INCIDENTE",
      OFFENSE_CATEGORY |-> "CATEGORIA_DELITO",
      CHARGE_DISPOSITION |-> "DISPOSICION_CARGO",
      SENTENCE_TYPE |-> "TIPO_SENTENCIA",
      COMMITMENT_TERM |-> "TERMINO_COMPROMISO",
      COMMITMENT_UNIT |-> "UNIDAD_COMPROMISO",
      LENGTH_OF_CASE_in_Days |-> "DURACION_CASO_EN_DIAS",
      INCIDENT_CITY |-> "CIUDAD_INCIDENTE",
      SENTENCE_JUDGE |-> "JUEZ_SENTENCIA" ]

alternateName(h) == CHOOSE key \in DOMAIN columnMap : columnMap[key] = h

isMissingHeadersError(e) == e # Null /\ Len(e) = 2

\* C4: a required field is resolved when the header row has its name under
\* either naming scheme (RAZA or RACE); a table with data rows in which every
\* required field is resolved is ingested without a missing-columns error.
C4_EitherSchemeResolves ==
    (result # NoResult /\ Len(csv.rows) > 0) =>
        ((\A h \in RequiredSet : h \in columnSet(csv) \/ alternateName(h) \in columnSet(csv))
            => ~isMissingHeadersError(result.error))

-----------------------------------------------------------------------------
(* C8 *)

\* C8: the fallback constants are used only when no row has a valid value:
\* when some row has a valid duration, an invalid or missing duration is
\* replaced by the median of the valid durations, a median of 0 included;
\* every canonical record's duration is a non-negative integer.
C8_FallbackOnlyWhenEmpty ==
    RowsProcessed =>
        \A k \in 1..Len(result.data) :
            LET raw == rawDuration(sourceRow(k))
                duration == result.data[k].DURACION_CASO_EN_DIAS
            IN /\ duration \in Nat
               /\ ~isValidDuration(raw) =>
                     duration = IF durationsOfAllRows = << >>
                                THEN FallbackDuration
                                ELSE MathRound(calculateMedian(durationsOfAllRows))

-----------------------------------------------------------------------------
(* C9 *)

absentOrNA(x) == x = undefined \/ x = << >> \/ x = sNA

rawOffenseCategory(row) ==
    IF truthy(cell(row, "CATEGORIA_DELITO_ACTUALIZADA"))
    THEN cell(row, "CATEGORIA_DELITO_ACTUALIZADA")
    ELSE cell(row, "CATEGORIA_DELITO")

\* C9: in every canonical record the offense category, charge disposition,
\* sentence type, incident city and sentencing judge are defined strings,
\* and are "Unknown" whenever the raw value is absent (no such column, or
\* an empty cell) or is the literal "N/A".
C9_DefaultUnknown ==
    RowsProcessed =>
        \A k \in 1..Len(result.data) :
            LET row == sourceRow(k)
                rec == result.data[k]
                defaulted(value, raw) ==
                    /\ value # undefined
                    /\ absentOrNA(raw) => value = sUnknown
            IN /\ defaulted(rec.CATEGORIA_DELITO, rawOffenseCategory(row))
               /\ defaulted(rec.DISPOSICION_CARGO, cell(row, "DISPOSICION_CARGO"))
               /\ defaulted(rec.TIPO_SENTENCIA, cell(row, "TIPO_SENTENCIA"))
               /\ defaulted(rec.CIUDAD_INCIDENTE, cell(row, "CIUDAD_INCIDENTE"))
               /\ defaulted(rec.JUEZ_SENTENCIA, cell(row, "JUEZ_SENTENCIA"))

-----------------------------------------------------------------------------
(* C10 *)

KnownGroups == <<shispanic, sblack, swhite, sasian>>
GroupLabels == <<sHispanic, sBlack, sWhite, sASIAN>>

matchedGroups(race) == {g \in 1..4 : includes(toLowerCase(race), KnownGroups[g])}
firstMatch(race) == CHOOSE g \in matchedGroups(race) : \A h \in matchedGroups(race) : g <= h

isBlank(race) ==
    race = undefined \/ \A i \in 1..Len(race) : race[i] \in WhiteSpace

capitalizeFirst(s) == <<charToUpper(s[1])>> \o Tail(s)

\* C10 as stated: "N/A", empty and blank values give "Unknown"; otherwise
\* the first group of (hispanic, black, white, asian) that the value
\* contains, case-insensitively, decides; an unmatched value is passed
\* through with its first letter capitalized.
C10_PassThroughCapitalized ==
    raceOut # "none" =>
        IF isBlank(raceIn) \/ raceIn = sNA THEN raceOut = sUnknown
        ELSE IF matchedGroups(raceIn) # {} THEN raceOut = GroupLabels[firstMatch(raceIn)]
        ELSE raceOut = capitalizeFirst(raceIn)

\* C10, amended: as above, except that an unmatched value is returned in
\* lower case with its first character in upper case, and that "n/a" in any
\* letter case gives "Unknown".
C10_LowerCasedCapitalized ==
    raceOut # "none" =>
        IF isBlank(raceIn) \/ raceIn = sNA THEN raceOut = sUnknown
        ELSE IF matchedGroups(raceIn) # {} THEN raceOut = GroupLabels[firstMatch(raceIn)]
        ELSE IF toLowerCase(raceIn) = sna THEN raceOut = sUnknown
        ELSE raceOut = capitalizeFirst(toLowerCase(raceIn))

\* a value that contains "black" before "hispanic" has resolved to "Hispanic"
C10_Witness ==
    /\ raceIn = <<"b","l","a","c","k"," ","H","I","S","P","A","N","I","C">>
    /\ sHispanic = raceOut

-----------------------------------------------------------------------------
(* App and FileUpload *)

MaxReads == 1

Views == {"home", "demographics", "dispositions", "sentencing", "duration",
          "intersectional", "summary", "reports"}

\* the tables of the files a user may pick, one per outcome of ingestion
ValidTableA == table(FullHeaders, <<BaseKind, ageKind(c20)>>)
ValidTableB == table(FullHeaders, <<"RAZA" :> cHispanicAmerican>>)
HeaderOnlyTable == table(FullHeaders, << >>)
EnglishTable == table(EnglishHeaders, <<BaseKind>>)
AllDroppedTable == table(FullHeaders, <<"RAZA" :> sNA>>)

AppTables == {ValidTableA, ValidTableB, HeaderOnlyTable, EnglishTable, AllDroppedTable}

sCsvSuffix == <<".","c","s","v">>
sTextCsv == <<"t","e","x","t","/","c","s","v">>

endsWith(s, suffix) ==
    Len(s) >= Len(suffix) /\ SubSeq(s, Len(s) - Len(suffix) + 1, Len(s)) = suffix

maxSize == 10 * 1024 * 1024

sCasesCsv == <<"c","a","s","e","s",".","c","s","v">>
sCasesUpper == <<"C","A","S","E","S",".","C","S","V">>
sNotesTxt == <<"n","o","t","e","s",".","t","x","t">>

\* one accepted file per table, a file that is not CSV and one that is too large
Files ==
    { [name |-> sCasesCsv, type |-> sTextCsv, size |-> 2048, text |-> t] :
        t \in AppTables \ {ValidTableB} }
    \cup
    { [name |-> sCasesUpper, type |-> << >>, size |-> maxSize, text |-> ValidTableB],
      [name |-> sNotesTxt, type |-> << >>, size |-> 2048, text |-> ValidTableA],
      [name |-> sCasesCsv, type |-> sTextCsv, size |-> maxSize + 1, text |-> ValidTableA] }

\* FileUpload is what App renders in this case, Sidebar and Dashboard otherwise
fileUploadRendered(d, scr) == scr = "upload" \/ d = Null

\* variant: the failure branch leaves the loaded dataset in place
handleDataLoaded_keepData(r) ==
    IF r.error # Null
    THEN [data |-> data, error |-> r.error, activeView |-> activeView, screen |-> "upload"]
    ELSE [data |-> r.data, error |-> Null, activeView |-> "home", screen |-> "dashboard"]

\* the state App sets in handleDataLoaded, given what parseAndCleanData returned
handleDataLoaded(r) ==
    IF r.error # Null
    THEN [data |-> Null, error |-> r.error, activeView |-> activeView, screen |-> "upload"]
    ELSE [data |-> r.data, error |-> Null, activeView |-> "home", screen |-> "dashboard"]

\* variant: the failure branch of the timer callback without setScreen('upload')
defaultLoad_keepScreen(r) ==
    IF r.error # Null
    THEN [data |-> Null, error |-> r.error, activeView |-> activeView, screen |-> screen]
    ELSE [data |-> r.data, error |-> Null, activeView |-> activeView, screen |-> "dashboard"]

\* the state App sets in the timer callback of its mount effect
defaultLoad(r) ==
    IF r.error # Null
    THEN [data |-> Null, error |-> r.error, activeView |-> activeView, screen |-> "upload"]
    ELSE [data |-> r.data, error |-> Null, activeView |-> activeView, screen |-> "dashboard"]

\* the file passes the checks of handleFileChange and handleDrop
accepted(file) ==
    /\ ~(~endsWith(toLowerCase(file.name), sCsvSuffix) /\ file.type # sTextCsv)
    /\ ~(file.size > maxSize)

removeAt(seq, i) == SubSeq(seq, 1, i - 1) \o SubSeq(seq, i + 1, Len(seq))

\* App takes the state next; FileUpload keeps the given state while it stays
\* mounted and loses it when App stops rendering it: a later mount starts from
\* the initial state, and the readers the old instance started can no longer
\* set its state
render(next, loading, name, pending) ==
    /\ data' = next.data
    /\ error' = next.error
    /\ activeView' = next.activeView
    /\ screen' = next.screen
    /\ IF fileUploadRendered(data, screen) /\ ~fileUploadRendered(next.data, next.screen)
       THEN /\ isLoading' = FALSE
            /\ fileName' = Null
            /\ reads' = [i \in 1..Len(pending) |-> [pending[i] EXCEPT !.mounted = FALSE]]
       ELSE /\ isLoading' = loading
            /\ fileName' = name
            /\ reads' = pending

InitApp ==
    /\ defaultDataCSV \in AppTables
    /\ data = Null /\ error = Null /\ activeView = "home" /\ screen = "upload"
    /\ timerPending = TRUE
    /\ reads = << >> /\ isLoading = FALSE /\ fileName = Null
    /\ lastEvent = "none" /\ dataBefore = Null
    /\ csv = [columns |-> << >>, rows |-> << >>]
    /\ result = NoResult
    /\ raceIn = undefined /\ raceOut = "none"
    /\ SentenceIdle
    /\ VoiceIdle
    /\ DashboardIdle

\* the callback of setTimeout(..., 100) in the mount effect of App
TimerFires ==
    /\ timerPending
    /\ timerPending' = FALSE
    /\ LET r == parseAndCleanData(defaultDataCSV) IN
       /\ csv' = defaultDataCSV
       /\ result' = r
       /\ render(defaultLoad(r), isLoading, fileName, reads)
    /\ dataBefore' = data
    /\ lastEvent' = "timer"
    /\ UNCHANGED <<raceVars, sentenceVars, voiceVars, dashVars, defaultDataCSV>>

\* the body shared by handleFileChange and handleDrop
selectFile(file, event) ==
    /\ fileUploadRendered(data, screen)
    /\ IF accepted(file)
       THEN /\ Len(reads) < MaxReads
            /\ isLoading' = TRUE
            /\ fileName' = file.name
            /\ reads' = Append(reads, [text |-> file.text, mounted |-> TRUE])
       ELSE UNCHANGED <<isLoading, fileName, reads>>
    /\ lastEvent' = event
    /\ UNCHANGED <<raceVars, sentenceVars, voiceVars, dashVars, ingestVars, defaultDataCSV, data, error, activeView,
                   screen, timerPending, dataBefore>>

HandleFileChange == \E file \in Files : selectFile(file, "fileChange")

HandleDrop == \E file \in Files : selectFile(file, "drop")

\* reader.onload of the i-th outstanding read
ReaderOnload ==
    \E i \in 1..Len(reads) :
        LET r == parseAndCleanData(reads[i].text) IN
        /\ csv' = reads[i].text
        /\ result' = r
        /\ render(handleDataLoaded(r),
                  IF reads[i].mounted THEN FALSE ELSE isLoading,
                  fileName,
                  removeAt(reads, i))
        /\ dataBefore' = data
        /\ lastEvent' = "onload"
        /\ UNCHANGED <<raceVars, sentenceVars, voiceVars, dashVars, defaultDataCSV, timerPending>>

\* reader.onerror of the i-th outstanding read
ReaderOnerror ==
    \E i \in 1..Len(reads) :
        /\ isLoading' = IF reads[i].mounted THEN FALSE ELSE isLoading
        /\ reads' = removeAt(reads, i)
        /\ lastEvent' = "onerror"
        /\ UNCHANGED <<raceVars, sentenceVars, voiceVars, dashVars, ingestVars, defaultDataCSV, data, error, activeView,
                       screen, timerPending, fileName, dataBefore>>

\* the reset button of Sidebar
HandleReset ==
    /\ ~fileUploadRendered(data, screen)
    /\ render([data |-> Null, error |-> Null, activeView |-> activeView, screen |-> "upload"],
              isLoading, fileName, reads)
    /\ lastEvent' = "reset"
    /\ UNCHANGED <<raceVars, sentenceVars, voiceVars, dashVars, ingestVars, defaultDataCSV, timerPending, dataBefore>>

\* a navigation button of Sidebar
SetActiveView ==
    /\ ~fileUploadRendered(data, screen)
    /\ \E view \in Views : activeView' = view
    /\ lastEvent' = "setActiveView"
    /\ UNCHANGED <<raceVars, sentenceVars, voiceVars, dashVars, ingestVars, defaultDataCSV, data, error, screen,
                   timerPending, reads, isLoading, fileName, dataBefore>>

Next ==
    \/ TimerFires
    \/ HandleFileChange
    \/ HandleDrop
    \/ ReaderOnload
    \/ ReaderOnerror
    \/ HandleReset
    \/ SetActiveView

Spec == InitApp /\ [][Next]_vars

-----------------------------------------------------------------------------
(* C2 *)

\* the latest handler was a load attempt, it failed, and a dataset was
\* loaded when it began
FailedLoadOverDataset ==
    /\ lastEvent \in {"timer", "onload"}
    /\ result.error # Null
    /\ dataBefore # Null

\* C2 as stated: a load attempt that fails while a dataset is loaded leaves
\* that dataset in place.
C2_FailedLoadKeepsDataset ==
    FailedLoadOverDataset => dataBefore = data

\* C2, amended: a load attempt that fails while a dataset is loaded discards
\* that dataset: afterwards there is no current dataset, the error is the
\* one ingestion returned and the upload screen is shown.
C2_FailedLoadClearsDataset ==
    FailedLoadOverDataset =>
        /\ data = Null
        /\ error = result.error
        /\ screen = "upload"

\* the read of a file without valid records completed after the default
\* dataset had been loaded
C2_Witness ==
    /\ lastEvent = "onload"
    /\ NoValidRecordsError = result.error
    /\ dataBefore # Null
    /\ data = Null

-----------------------------------------------------------------------------
(* Specification of convertSentenceToYears as a function of its arguments *)

MaxTermLen == 2

TermAlphabet == {"2", ".", "-", "n", "/", "a"}

sLife == <<"L","i","f","e">>
c730 == <<"7","3","0">>
c1point5 == <<"1",".","5">>
cYearsLower == <<"y","e","a","r","s">>
cMonthsLower == <<"m","o","n","t","h","s">>
cDays == <<"D","a","y","s">>
cWeeks == <<"W","e","e","k","s">>
cDollars == <<"D","o","l","l","a","r","s">>

TermSamples ==
    { sNA, sna, sNa, cNaturalLife, slife, <<"L","I","F","E">>,
      c2, c18, c24, c730, c1point5, c0, cMinus5,
      <<" ","2">>, <<"2"," ","y","r">>, <<"a","b","c">>, cBlank,
      <<"l","i","f","e","t","i","m","e">> }

TermInputs == TermSamples \cup StringsUpTo(TermAlphabet, MaxTermLen)

UnitInputs ==
    { << >>, sNA, sna, sNa, sLife, cNaturalLife, <<"L","I","F","E">>,
      cYears, cYearsLower, <<"Y","E","A","R">>, cMonths, cMonthsLower, cDays, sday,
      cTerm, cWeeks, cDollars, cBlank,
      <<"Y","e","a","r","s","/","M","o","n","t","h","s">>,
      <<"M","o","n","t","h","s","/","D","a","y","s">> }

InitSentence ==
    /\ termIn \in TermInputs
    /\ unitIn \in UnitInputs
    /\ yearsOut = "none"
    /\ raceIn = undefined /\ raceOut = "none"
    /\ csv = [columns |-> << >>, rows |-> << >>]
    /\ result = NoResult
    /\ AppIdle
    /\ DashboardIdle
    /\ VoiceIdle

ConvertSentenceToYears ==
    /\ yearsOut = "none"
    /\ yearsOut' = convertSentenceToYears(termIn, unitIn)
    /\ UNCHANGED <<termIn, unitIn, raceVars, ingestVars, appVars, dashVars, voiceVars>>

NextSentence == ConvertSentenceToYears

SpecSentence == InitSentence /\ [][NextSentence]_vars

-----------------------------------------------------------------------------
(* C11 *)

\* the text, lower-cased, is empty or is "n/a"
emptyOrNA(text) == toLowerCase(text) = << >> \/ toLowerCase(text) = sna

mentionsLife(text) == includes(toLowerCase(text), slife)

\* the number the term parses to as a decimal literal, NaN when it does not
termNumber == parseFloat(toLowerCase(termIn))

\* years = term / divisor, for a divisor given in hundredths
isTermOver(years, hundredths) ==
    /\ years[2] > 0
    /\ years[1] * hundredths * termNumber[2] = termNumber[1] * 100 * years[2]

\* C11: the rules of convertSentenceToYears apply in this order: (a) a term
\* or unit that is empty or "n/a" in any letter case gives undefined; (b)
\* else a term or unit containing "life" gives 99; (c) else a term that does
\* not parse as a number gives undefined; (d) else a unit containing "year"
\* gives the term, "month" the term / 12, "day" the term / 365.25, and any
\* other unit gives undefined, never 0.
C11_PriorityOrder ==
    yearsOut # "none" =>
        IF emptyOrNA(termIn) \/ emptyOrNA(unitIn) THEN yearsOut = Undefined
        ELSE IF mentionsLife(termIn) \/ mentionsLife(unitIn) THEN yearsOut = <<99, 1>>
        ELSE IF isNaN(termNumber) THEN yearsOut = Undefined
        ELSE IF includes(toLowerCase(unitIn), syear) THEN isTermOver(yearsOut, 100)
        ELSE IF includes(toLowerCase(unitIn), smonth) THEN isTermOver(yearsOut, 1200)
        ELSE IF includes(toLowerCase(unitIn), sday) THEN isTermOver(yearsOut, 36525)
        ELSE yearsOut = Undefined /\ yearsOut # <<0, 1>>

\* a numeric term with a unit that is not recognized has given undefined
C11_Witness ==
    /\ termIn = c18
    /\ unitIn = cWeeks
    /\ Undefined = yearsOut

-----------------------------------------------------------------------------
(* C12 *)

\* C12 as stated: whatever the term, the unit "Life" gives 99, and whatever
\* the unit, the term "Natural Life" gives 99.
C12_LifeForAnything ==
    yearsOut # "none" =>
        /\ unitIn = sLife => yearsOut = <<99, 1>>
        /\ termIn = cNaturalLife => yearsOut = <<99, 1>>

\* C12, amended: the unit "Life" gives 99 for every term that is neither
\* empty nor "n/a", the term "Natural Life" gives 99 for every unit that is
\* neither empty nor "n/a"; with an empty or "n/a" value on the other side
\* the result is undefined.
C12_LifeUnlessBlank ==
    yearsOut # "none" =>
        /\ unitIn = sLife =>
              yearsOut = IF emptyOrNA(termIn) THEN Undefined ELSE <<99, 1>>
        /\ termIn = cNaturalLife =>
              yearsOut = IF emptyOrNA(unitIn) THEN Undefined ELSE <<99, 1>>

\* a term that is not a number, with the unit "Life", has given 99
C12_Witness ==
    /\ termIn = <<"a","b","c">>
    /\ unitIn = sLife
    /\ <<99, 1>> = yearsOut

-----------------------------------------------------------------------------
(* Arithmetic of the metrics: a JavaScript number is a fraction <<n, d>> in  *)
(* lowest terms with d > 0, or Infinity, -Infinity or the number NaN.        *)
(* Sums, differences, products and quotients are exact; the rounding of      *)
(* IEEE double arithmetic is not represented.                                *)

Infinity == <<1, 0>>
NegInfinity == <<-1, 0>>
NotANumber == <<0, -1>>

Num(n) == <<n, 1>>

isFinite(q) == q[2] > 0

sign(q) == IF q[1] > 0 THEN 1 ELSE IF q[1] < 0 THEN -1 ELSE 0

FracNeg(a) == <<-a[1], a[2]>>

FracAbs(a) == <<Abs(a[1]), a[2]>>

\* a + b
FracAdd(a, b) ==
    IF isFinite(a) /\ isFinite(b) THEN Frac(a[1] * b[2] + b[1] * a[2], a[2] * b[2])
    ELSE IF a = NotANumber \/ b = NotANumber THEN NotANumber
    ELSE IF isFinite(a) THEN b
    ELSE IF isFinite(b) THEN a
    ELSE IF a = b THEN a
    ELSE NotANumber

\* a - b
FracSub(a, b) == FracAdd(a, FracNeg(b))

\* a * b
FracMul(a, b) ==
    IF isFinite(a) /\ isFinite(b) THEN Frac(a[1] * b[1], a[2] * b[2])
    ELSE IF a = NotANumber \/ b = NotANumber \/ sign(a) * sign(b) = 0 THEN NotANumber
    ELSE <<sign(a) * sign(b), 0>>

\* a / b
FracDiv(a, b) ==
    IF a = NotANumber \/ b = NotANumber THEN NotANumber
    ELSE IF isFinite(a) /\ isFinite(b)
    THEN IF b[1] > 0 THEN Frac(a[1] * b[2], a[2] * b[1])
         ELSE IF b[1] < 0 THEN Frac(-(a[1] * b[2]), -(a[2] * b[1]))
         ELSE IF a[1] = 0 THEN NotANumber
         ELSE <<sign(a), 0>>
    ELSE IF isFinite(a) THEN <<0, 1>>
    ELSE IF isFinite(b) THEN <<sign(a) * (IF b[1] < 0 THEN -1 ELSE 1), 0>>
    ELSE NotANumber

\* a < b
FracLess(a, b) ==
    IF a = NotANumber \/ b = NotANumber THEN FALSE
    ELSE IF ~isFinite(a) /\ ~isFinite(b) THEN a[1] < b[1]
    ELSE a[1] * b[2] < b[1] * a[2]

\* Math.max(...arr)
MathMax(arr) ==
    IF arr = << >> THEN NegInfinity
    ELSE IF \E i \in 1..Len(arr) : arr[i] = NotANumber THEN NotANumber
    ELSE arr[CHOOSE i \in 1..Len(arr) :
                /\ \A j \in 1..Len(arr) : ~FracLess(arr[i], arr[j])
                /\ \A j \in 1..(i - 1) : FracLess(arr[j], arr[i])]

\* Math.min(...arr)
MathMin(arr) ==
    IF arr = << >> THEN Infinity
    ELSE IF \E i \in 1..Len(arr) : arr[i] = NotANumber THEN NotANumber
    ELSE arr[CHOOSE i \in 1..Len(arr) :
                /\ \A j \in 1..Len(arr) : ~FracLess(arr[j], arr[i])
                /\ \A j \in 1..(i - 1) : FracLess(arr[i], arr[j])]

\* the decimal digits of a natural number
RECURSIVE digitsOf(_)
digitsOf(n) ==
    IF n < 10 THEN <<Digits[n + 1]>>
    ELSE Append(digitsOf(n \div 10), Digits[(n % 10) + 1])

\* String(n) of an integer
numberToString(n) == IF n < 0 THEN <<"-">> \o digitsOf(-n) ELSE digitsOf(n)

\* q.toFixed(2): the nearest multiple of 0.01, a half rounded away from zero
toFixed2(q) ==
    IF q = NotANumber THEN <<"N","a","N">>
    ELSE IF q = Infinity THEN <<"I","n","f","i","n","i","t","y">>
    ELSE IF q = NegInfinity THEN <<"-","I","n","f","i","n","i","t","y">>
    ELSE LET hundredths == (2 * Abs(q[1]) * 100 + q[2]) \div (2 * q[2])
             text == digitsOf(hundredths \div 100) \o <<".">> \o
                     <<Digits[((hundredths \div 10) % 10) + 1], Digits[(hundredths % 10) + 1]>>
         IN IF q[1] < 0 THEN <<"-">> \o text ELSE text

-----------------------------------------------------------------------------
(* Aggregations shared by the views of the Dashboard *)

\* [...new Set(values)]: the distinct values in the order of first appearance
RECURSIVE unique(_)
unique(values) ==
    IF values = << >> THEN << >>
    ELSE LET earlier == unique(SubSeq(values, 1, Len(values) - 1))
             last == values[Len(values)]
         IN IF arrayIncludes(earlier, last) THEN earlier ELSE Append(earlier, last)

\* cases.map(d => d.RAZA)
racesIn(cases) == [i \in 1..Len(cases) |-> cases[i].RAZA]

\* d.SENTENCE_IN_YEARS !== undefined && d.SENTENCE_IN_YEARS < 99
hasFiniteSentence(d) ==
    d.SENTENCE_IN_YEARS # Undefined /\ FracLess(d.SENTENCE_IN_YEARS, Num(LifeSentence))

\* d.SENTENCE_IN_YEARS || 0
sentenceOrZero(d) ==
    IF d.SENTENCE_IN_YEARS = Undefined \/ d.SENTENCE_IN_YEARS = NotANumber
    THEN Num(0)
    ELSE d.SENTENCE_IN_YEARS

\* numbers.reduce((acc, x) => acc + x, 0)
RECURSIVE sum(_)
sum(numbers) ==
    IF numbers = << >> THEN Num(0)
    ELSE FracAdd(sum(SubSeq(numbers, 1, Len(numbers) - 1)), numbers[Len(numbers)])

\* group.reduce((acc, d) => acc + f(d), 0)
sumOver(group, f(_)) == sum([i \in 1..Len(group) |-> f(group[i])])

\* cases.filter(d => d.RAZA === race)
ofRace(cases, race) == SelectSeq(cases, LAMBDA d : d.RAZA = race)

-----------------------------------------------------------------------------
(* BiasSummaryDashboard: the scores memo *)

sguilty == <<"g","u","i","l","t","y">>

RepresentationFinding == "Existe una desviacion significativa en la representacion demografica."
DispositionFinding == "Hay disparidades notables en los resultados de 'culpable' entre grupos raciales."
SentencingFinding == "Se observan diferencias significativas en la duracion promedio de las sentencias."
DurationFinding == "La duracion procesal promedio varia considerablemente entre grupos."

\* Object.entries(raceCounts).map(...): one entry per race, in the order of
\* first appearance
raceData(cases) ==
    LET names == unique(racesIn(cases))
        total == Len(cases)
    IN [i \in 1..Len(names) |->
          LET value == Len(ofRace(cases, names[i])) IN
          [name |-> names[i],
           value |-> value,
           percentage |-> FracMul(FracDiv(Num(value), Num(total)), Num(100))]]

maxRepDeviation(cases) ==
    LET rd == raceData(cases) IN
    IF Len(rd) > 0
    THEN MathMax([i \in 1..Len(rd) |->
                    FracAbs(FracSub(rd[i].percentage, FracDiv(Num(100), Num(Len(rd)))))])
    ELSE Num(0)

repScore(cases) ==
    MathMax(<<Num(0), FracSub(Num(100), FracMul(maxRepDeviation(cases), Num(2)))>>)

isGuilty(d) == includes(toLowerCase(d.DISPOSICION_CARGO), sguilty)

\* (guiltyByRace[r.name] || 0) / r.value for every entry of raceData
guiltyRates(cases) ==
    LET rd == raceData(cases)
        guiltyData == SelectSeq(cases, isGuilty)
    IN [i \in 1..Len(rd) |->
          FracDiv(Num(Len(ofRace(guiltyData, rd[i].name))), Num(rd[i].value))]

maxDispRateDiff(cases) ==
    LET rates == guiltyRates(cases) IN
    IF Len(rates) > 0
    THEN FracMul(FracSub(MathMax(rates), MathMin(rates)), Num(100))
    ELSE Num(0)

dispScore(cases) ==
    MathMax(<<Num(0), FracSub(Num(100), FracMul(maxDispRateDiff(cases), Num(2)))>>)

\* the mean sentence of a race over its records with a sentence below 99,
\* 0 for a race without such a record
avgSentenceOfRace(cases, race) ==
    LET group == SelectSeq(ofRace(cases, race), hasFiniteSentence) IN
    IF Len(group) > 0
    THEN FracDiv(sumOver(group, sentenceOrZero), Num(Len(group)))
    ELSE Num(0)

\* variant: the means that are not positive are kept
avgSentences_keepZero(cases) ==
    LET races == unique(racesIn(cases)) IN
    [i \in 1..Len(races) |-> avgSentenceOfRace(cases, races[i])]

avgSentences(cases) ==
    LET races == unique(racesIn(cases)) IN
    SelectSeq([i \in 1..Len(races) |-> avgSentenceOfRace(cases, races[i])],
              LAMBDA avg : FracLess(Num(0), avg))

\* variant: the difference of the extreme means in place of their quotient
maxSentDiff_difference(cases) ==
    LET avgs == avgSentences(cases) IN
    IF Len(avgs) > 1 THEN FracSub(MathMax(avgs), MathMin(avgs)) ELSE Num(1)

maxSentDiff(cases) ==
    LET avgs == avgSentences(cases) IN
    IF Len(avgs) > 1 THEN FracDiv(MathMax(avgs), MathMin(avgs)) ELSE Num(1)

\* variant: the score is not floored at 0
sentScore_noFloor(cases) ==
    FracSub(Num(100), FracMul(FracSub(maxSentDiff(cases), Num(1)), Num(50)))

sentScore(cases) ==
    MathMax(<<Num(0), FracSub(Num(100), FracMul(FracSub(maxSentDiff(cases), Num(1)), Num(50)))>>)

avgDurations(cases) ==
    LET races == unique(racesIn(cases)) IN
    [i \in 1..Len(races) |->
        LET group == ofRace(cases, races[i]) IN
        IF Len(group) > 0
        THEN FracDiv(sumOver(group, LAMBDA d : Num(d.DURACION_CASO_EN_DIAS)), Num(Len(group)))
        ELSE Num(0)]

maxDurDiff(cases) ==
    LET avgs == avgDurations(cases) IN
    IF Len(avgs) > 0 THEN FracSub(MathMax(avgs), MathMin(avgs)) ELSE Num(0)

\* 1 point deducted per 30 days of difference
durScore(cases) ==
    MathMax(<<Num(0), FracSub(Num(100), FracDiv(maxDurDiff(cases), Num(30)))>>)

globalScore(cases) ==
    FracDiv(FracAdd(FracAdd(FracAdd(repScore(cases), dispScore(cases)), sentScore(cases)),
                    durScore(cases)),
            Num(4))

\* a score below this value produces its finding
FindingScore == 70

findings(cases) ==
    (IF FracLess(repScore(cases), Num(FindingScore)) THEN <<RepresentationFinding>> ELSE << >>)
    \o (IF FracLess(dispScore(cases), Num(FindingScore)) THEN <<DispositionFinding>> ELSE << >>)
    \o (IF FracLess(sentScore(cases), Num(FindingScore)) THEN <<SentencingFinding>> ELSE << >>)
    \o (IF FracLess(durScore(cases), Num(FindingScore)) THEN <<DurationFinding>> ELSE << >>)

\* the value of the scores memo; the thresholds prop is not read
BiasSummaryDashboard(cases, thresholdsProp) ==
    IF Len(cases) = 0
    THEN [rep |-> Num(100), disp |-> Num(100), sent |-> Num(100), dur |-> Num(100),
          global |-> Num(100), findings |-> << >>]
    ELSE [rep |-> repScore(cases), disp |-> dispScore(cases), sent |-> sentScore(cases),
          dur |-> durScore(cases), global |-> globalScore(cases),
          findings |-> findings(cases)]

-----------------------------------------------------------------------------
(* SentencingAnalysis, IntersectionalAnalysis *)

\* the avgSentenceByRace memo: parseFloat(avg.toFixed(2)) per race
SentencingAnalysis(cases) ==
    IF Len(cases) = 0 THEN << >>
    ELSE LET races == unique(racesIn(cases)) IN
         [i \in 1..Len(races) |->
            [name |-> races[i],
             avgSentence |-> parseFloat(toFixed2(avgSentenceOfRace(cases, races[i])))]]

\* the intersectionalData memo: one point per record with a sentence below 99
IntersectionalAnalysis(cases) ==
    LET kept == SelectSeq(cases, hasFiniteSentence) IN
    [i \in 1..Len(kept) |->
        [age |-> kept[i].EDAD_AL_INCIDENTE,
         sentence |-> kept[i].SENTENCE_IN_YEARS,
         race |-> kept[i].RAZA]]

-----------------------------------------------------------------------------
(* Dashboard: yearExtent, filteredData, handleExportCSV *)

sAll == <<"A","l","l">>

yearsOf(cases) ==
    LET dated == SelectSeq(cases, LAMBDA d : ~isNaN(d.FECHA_RECEPCION)) IN
    [i \in 1..Len(dated) |-> getFullYear(dated[i].FECHA_RECEPCION)]

\* the window used when there is no year: the 20 years up to the current one
DefaultYears == 20

\* variant: the upper bound is the year of the last record
yearExtent_lastYear(cases, year) ==
    LET defaultRange == <<year - DefaultYears, year>>
        years == yearsOf(cases)
    IN IF Len(cases) = 0 THEN defaultRange
       ELSE IF Len(years) = 0 THEN defaultRange
       ELSE <<MathMin([i \in 1..Len(years) |-> Num(years[i])])[1], years[Len(years)]>>

\* the yearExtent memo; the minimum and maximum of a non-empty list of
\* integers are finite, so the isFinite test of the source never fails
yearExtent(cases, year) ==
    LET defaultRange == <<year - DefaultYears, year>>
        years == yearsOf(cases)
    IN IF Len(cases) = 0 THEN defaultRange
       ELSE IF Len(years) = 0 THEN defaultRange
       ELSE <<MathMin([i \in 1..Len(years) |-> Num(years[i])])[1],
              MathMax([i \in 1..Len(years) |-> Num(years[i])])[1]>>

\* variant: the upper end of the year range is excluded
passes_yearBelowUpper(d, f) ==
    LET year == getFullYear(d.FECHA_RECEPCION)
        yearMatch == /\ ~isNaN(d.FECHA_RECEPCION)
                     /\ year >= f.yearRange[1] /\ year < f.yearRange[2]
        offenseMatch == f.offenseCategory = sAll \/ d.CATEGORIA_DELITO = f.offenseCategory
        cityMatch == f.incidentCity = sAll \/ d.CIUDAD_INCIDENTE = f.incidentCity
    IN yearMatch /\ offenseMatch /\ cityMatch

\* the callback of data.filter in the filteredData memo; a comparison with
\* the NaN year of an invalid Date is false
passes(d, f) ==
    LET year == getFullYear(d.FECHA_RECEPCION)
        yearMatch == /\ ~isNaN(d.FECHA_RECEPCION)
                     /\ year >= f.yearRange[1] /\ year <= f.yearRange[2]
        offenseMatch == f.offenseCategory = sAll \/ d.CATEGORIA_DELITO = f.offenseCategory
        cityMatch == f.incidentCity = sAll \/ d.CIUDAD_INCIDENTE = f.incidentCity
    IN yearMatch /\ offenseMatch /\ cityMatch

\* the value of the filteredData memo
computeFilteredData(cases, f) == SelectSeq(cases, LAMBDA d : passes(d, f))

\* the initial value of useState for thresholds
defaultThresholds ==
    [representation |-> [under |-> 10, over |-> 60],
     disposition |-> 15,
     sentencing |-> <<3, 2>>,
     duration |-> 60]

\* the initial value of useState for filters, which the effect on yearExtent
\* sets again after the mount
initialFilters(extent) ==
    [yearRange |-> extent, offenseCategory |-> sAll, incidentCity |-> sAll]

\* Object.keys(caseData), in the order parseAndCleanData assigns them
CaseKeys ==
    <<"ID_CASO", "ID_PARTICIPANTE_CASO", "FECHA_RECEPCION", "RAZA", "GENERO",
      "EDAD_AL_INCIDENTE", "CATEGORIA_DELITO", "DISPOSICION_CARGO", "TIPO_SENTENCIA",
      "TERMINO_COMPROMISO", "UNIDAD_COMPROMISO", "DURACION_CASO_EN_DIAS",
      "CIUDAD_INCIDENTE", "JUEZ_SENTENCIA", "SENTENCE_IN_YEARS">>

\* the keys whose value is a string, unless it is undefined
StringKeys ==
    {"ID_CASO", "ID_PARTICIPANTE_CASO", "RAZA", "GENERO", "CATEGORIA_DELITO",
     "DISPOSICION_CARGO", "TIPO_SENTENCIA", "TERMINO_COMPROMISO", "UNIDAD_COMPROMISO",
     "CIUDAD_INCIDENTE", "JUEZ_SENTENCIA"}

\* v.replace(/"/g, '""')
RECURSIVE doubleQuotes(_)
doubleQuotes(v) ==
    IF v = << >> THEN << >>
    ELSE (IF Head(v) = "\"" THEN <<"\"", "\"">> ELSE <<Head(v)>>) \o doubleQuotes(Tail(v))

\* `"${v.replace(/"/g, '""')}"`
quoted(v) == <<"\"">> \o doubleQuotes(v) \o <<"\"">>

\* the digits of r / d after the decimal point, for 0 <= r < d, until the
\* remainder is 0 or `left` significant digits have been written
RECURSIVE decimals(_, _, _, _)
decimals(r, d, left, significant) ==
    IF r = 0 \/ left = 0 THEN << >>
    ELSE LET digit == (r * 10) \div d
             counts == significant \/ digit # 0
         IN <<Digits[digit + 1]>> \o
            decimals((r * 10) % d, d, IF counts THEN left - 1 ELSE left, counts)

\* the significant digits String(x) writes for a number that is not an integer
SignificantDigits == 16

\* String(x) of a number: an integer in full, any other value by its decimal
\* expansion cut after SignificantDigits digits (the source rounds the last one)
numberText(q) ==
    IF q = NotANumber THEN <<"N","a","N">>
    ELSE IF q = Infinity THEN <<"I","n","f","i","n","i","t","y">>
    ELSE IF q = NegInfinity THEN <<"-","I","n","f","i","n","i","t","y">>
    ELSE LET whole == Abs(q[1]) \div q[2]
             rest == Abs(q[1]) % q[2]
             text == digitsOf(whole) \o
                     (IF rest = 0 THEN << >>
                      ELSE <<".">> \o decimals(rest, q[2], SignificantDigits - Len(digitsOf(whole)),
                                              whole # 0))
         IN IF q[1] < 0 THEN <<"-">> \o text ELSE text

DayNames == <<"Sat", "Sun", "Mon", "Tue", "Wed", "Thu", "Fri">>
MonthNames == <<"Jan", "Feb", "Mar", "Apr", "May", "Jun",
                "Jul", "Aug", "Sep", "Oct", "Nov", "Dec">>

\* the day of the week of a date, 1 for Saturday (Zeller's congruence)
dayOfWeek(date) ==
    LET y == IF date[2] < 3 THEN date[1] - 1 ELSE date[1]
        m == IF date[2] < 3 THEN date[2] + 12 ELSE date[2]
        K == y % 100
        J == y \div 100
    IN ((date[3] + (13 * (m + 1)) \div 5 + K + K \div 4 + J \div 4 + 5 * J) % 7) + 1

twoDigits(n) == <<Digits[(n \div 10) + 1], Digits[(n % 10) + 1]>>

\* String(date) in an environment whose time zone is UTC; the words are
\* kept whole, as they hold no delimiter
dateText(date) ==
    IF isNaN(date) THEN <<"Invalid", " ", "Date">>
    ELSE <<DayNames[dayOfWeek(date)], " ", MonthNames[date[2]], " ">> \o twoDigits(date[3])
         \o <<" ">> \o digitsOf(date[1])
         \o <<" ", "00:00:00", " ", "GMT+0000", " ", "(Coordinated", " ", "Universal",
              " ", "Time)">>

\* one field of a row of the full export, as rowArray.join(",") writes it
exportField(d, key) ==
    IF key \in StringKeys
    THEN IF d[key] = undefined THEN << >> ELSE quoted(d[key])
    ELSE IF key = "FECHA_RECEPCION" THEN dateText(d[key])
    ELSE IF key = "SENTENCE_IN_YEARS"
    THEN IF d[key] = Undefined THEN << >> ELSE numberText(d[key])
    ELSE numberToString(d[key])

sRaza == <<"R","a","z","a">>
sTotalCasos == <<"T","o","t","a","l"," ","C","a","s","o","s">>
sSentenciaPromedio ==
    <<"S","e","n","t","e","n","c","i","a"," ","P","r","o","m","e","d","i","o"," ",
      "(","A","n","o","s",")">>

NoDataAlert == "No hay datos para exportar. Por favor, ajuste los filtros."

\* the row of one race in the summary export
summaryRow(cases, race) ==
    LET groupData == ofRace(cases, race)
        avgSentence == FracDiv(sumOver(groupData, sentenceOrZero), Num(Len(groupData)))
    IN <<race, numberToString(Len(groupData)), toFixed2(avgSentence)>>

\* the concatenation of a list of texts
RECURSIVE concat(_)
concat(texts) ==
    IF Len(texts) = 0 THEN << >>
    ELSE IF Len(texts) = 1 THEN texts[1]
    ELSE concat(SubSeq(texts, 1, Len(texts) \div 2))
         \o concat(SubSeq(texts, Len(texts) \div 2 + 1, Len(texts)))

\* rowArray.join(",")
joinComma(rowArray) ==
    concat([k \in 1..Len(rowArray) |->
               IF k = 1 THEN rowArray[k] ELSE <<",">> \o rowArray[k]])

DataUriPrefix == "data:text/csv;charset=utf-8,"

\* csvContent after rows.forEach: the prefix and every row followed by \r\n
csvContentOf(rows) ==
    <<DataUriPrefix>> \o concat([i \in 1..Len(rows) |-> joinComma(rows[i]) \o <<"\r", "\n">>])

\* the characters of the texts written that encodeURI escapes, with their
\* escape sequences
UriEscapes ==
    (" " :> <<"%","2","0">>) @@ ("\"" :> <<"%","2","2">>) @@ ("%" :> <<"%","2","5">>)
    @@ ("\r" :> <<"%","0","D">>) @@ ("\n" :> <<"%","0","A">>)

\* encodeURI(csvContent)
encodeURI(text) ==
    concat([i \in 1..Len(text) |->
               IF text[i] \in DOMAIN UriEscapes THEN UriEscapes[text[i]] ELSE <<text[i]>>])

\* what handleExportCSV(summary) produces from the filtered records: the
\* alert, or the file name, the rows, every field as join(",") writes it,
\* and the href of the link that is clicked
handleExportCSV(cases, summary) ==
    IF Len(cases) = 0 THEN [alert |-> NoDataAlert]
    ELSE LET rows ==
                 IF summary
                 THEN LET races == unique(racesIn(cases)) IN
                      <<<<sRaza, sTotalCasos, sSentenciaPromedio>>>> \o
                      [i \in 1..Len(races) |-> summaryRow(cases, races[i])]
                 ELSE <<[k \in 1..Len(CaseKeys) |-> <<CaseKeys[k]>>]>> \o
                      [i \in 1..Len(cases) |->
                         [k \in 1..Len(CaseKeys) |-> exportField(cases[i], CaseKeys[k])]]
         IN [filename |-> IF summary THEN "resumen_sesgos.csv" ELSE "datos_procesados.csv",
             rows |-> rows,
             href |-> encodeURI(csvContentOf(rows))]

-----------------------------------------------------------------------------
(* The Dashboard component: mount, navigation, filters, export, reset *)

\* the Dashboard is rendered and has its state
mounted == filters # NoResult

\* App renders Sidebar and Dashboard for a loaded record list
DashboardShown(cases) ==
    /\ data = cases /\ error = Null /\ activeView = "home" /\ screen = "dashboard"
    /\ defaultDataCSV = [columns |-> << >>, rows |-> << >>]
    /\ timerPending = FALSE /\ reads = << >> /\ isLoading = FALSE
    /\ fileName = Null /\ lastEvent = "none" /\ dataBefore = Null

\* what renderContent computes for a view: the memo of the component it
\* renders; the memos of DataSummary, DemographicAnalysis, DispositionAnalysis
\* and DurationAnalysis only feed charts and are left out
renderContent(view, cases, shown, thresholdsProp) ==
    CASE view = "summary" ->
            [fn |-> "BiasSummaryDashboard", value |-> BiasSummaryDashboard(shown, thresholdsProp)]
      [] view = "sentencing" ->
            [fn |-> "SentencingAnalysis", value |-> SentencingAnalysis(shown)]
      [] view = "intersectional" ->
            [fn |-> "IntersectionalAnalysis", value |-> IntersectionalAnalysis(shown)]
      [] OTHER -> [fn |-> view]

\* the filter card is part of these views only
showFilters(view) ==
    view \in {"demographics", "dispositions", "sentencing", "duration", "intersectional"}

\* the value of the yearExtent memo for the records App holds
yearExtentMemo == yearExtent(data, currentYear)

\* the first render of Dashboard: yearExtent, the initial filters (which the
\* effect on yearExtent sets once more), the thresholds, filteredData
MountDashboard ==
    /\ ~mounted
    /\ screen = "dashboard"
    /\ LET f == initialFilters(yearExtentMemo)
           shown == computeFilteredData(data, f)
       IN /\ filters' = f
          /\ thresholds' = defaultThresholds
          /\ filteredData' = shown
          /\ memo' = renderContent(activeView, data, shown, defaultThresholds)
    /\ lastEvent' = "mount"
    /\ UNCHANGED <<raceVars, sentenceVars, voiceVars, ingestVars, currentYear, defaultDataCSV, data,
                   error, activeView, screen, timerPending, reads, isLoading, fileName,
                   dataBefore>>

\* a navigation button of Sidebar, and the render of Dashboard that follows
NavigateDashboard ==
    /\ mounted
    /\ \E view \in Views :
          /\ activeView' = view
          /\ memo' = renderContent(view, data, filteredData, thresholds)
    /\ lastEvent' = "setActiveView"
    /\ UNCHANGED <<raceVars, sentenceVars, voiceVars, ingestVars, currentYear, filters, thresholds,
                   filteredData, defaultDataCSV, data, error, screen, timerPending, reads,
                   isLoading, fileName, dataBefore>>

\* variant: the filter is applied to the loaded records in place
setFilters_filterInPlace(next, event) ==
    /\ filters' = next
    /\ data' = computeFilteredData(data, next)
    /\ filteredData' = computeFilteredData(data, next)
    /\ memo' = renderContent(activeView, data, computeFilteredData(data, next), thresholds)
    /\ lastEvent' = event
    /\ UNCHANGED <<raceVars, sentenceVars, voiceVars, ingestVars, currentYear, thresholds,
                   defaultDataCSV, error, activeView, screen, timerPending, reads,
                   isLoading, fileName, dataBefore>>

\* setFilters(next) and the render that follows
setFilters(next, event) ==
    /\ filters' = next
    /\ filteredData' = computeFilteredData(data, next)
    /\ memo' = renderContent(activeView, data, computeFilteredData(data, next), thresholds)
    /\ lastEvent' = event
    /\ UNCHANGED <<raceVars, sentenceVars, voiceVars, ingestVars, currentYear, thresholds,
                   defaultDataCSV, data, error, activeView, screen, timerPending, reads,
                   isLoading, fileName, dataBefore>>

\* e.target.value of a range input: the text of an integer between min and max
sliderValues == {numberToString(v) : v \in yearExtentMemo[1]..yearExtentMemo[2]}

Min2(a, b) == IF a < b THEN a ELSE b
Max2(a, b) == IF a > b THEN a ELSE b

\* onChange of the first range input
ChangeYearFrom ==
    /\ mounted /\ showFilters(activeView)
    /\ \E value \in sliderValues :
          /\ value # numberToString(filters.yearRange[1])
          /\ setFilters([filters EXCEPT !.yearRange =
                            <<Min2(parseInt(value)[1], filters.yearRange[2] - 1),
                              filters.yearRange[2]>>],
                        "yearFrom")

\* onChange of the second range input
ChangeYearTo ==
    /\ mounted /\ showFilters(activeView)
    /\ \E value \in sliderValues :
          /\ value # numberToString(filters.yearRange[2])
          /\ setFilters([filters EXCEPT !.yearRange =
                            <<filters.yearRange[1],
                              Max2(parseInt(value)[1], filters.yearRange[1] + 1)>>],
                        "yearTo")

\* the uniqueValues memo of App: [...new Set(values)].sort(), as a set
uniqueValuesOf(cases, key) == {cases[i][key] : i \in 1..Len(cases)}

\* onChange of the offense select
ChangeOffense ==
    /\ mounted /\ showFilters(activeView)
    /\ \E value \in {sAll} \cup uniqueValuesOf(data, "CATEGORIA_DELITO") :
          /\ value # filters.offenseCategory
          /\ setFilters([filters EXCEPT !.offenseCategory = value], "offense")

\* onChange of the city select
ChangeCity ==
    /\ mounted /\ showFilters(activeView)
    /\ \E value \in {sAll} \cup uniqueValuesOf(data, "CIUDAD_INCIDENTE") :
          /\ value # filters.incidentCity
          /\ setFilters([filters EXCEPT !.incidentCity = value], "city")

\* the two CSV buttons of the reports view
ExportCSV ==
    /\ mounted /\ activeView = "reports"
    /\ \E summary \in BOOLEAN :
          memo' = [fn |-> "handleExportCSV", summary |-> summary,
                   value |-> handleExportCSV(filteredData, summary)]
    /\ lastEvent' = "exportCSV"
    /\ UNCHANGED <<raceVars, sentenceVars, voiceVars, ingestVars, currentYear, filters, thresholds,
                   filteredData, defaultDataCSV, data, error, activeView, screen,
                   timerPending, reads, isLoading, fileName, dataBefore>>

\* the PDF button of the reports view: the page is rasterized, no state of
\* the application is read or written
ExportPDF ==
    /\ mounted /\ activeView = "reports"
    /\ lastEvent' = "exportPDF"
    /\ UNCHANGED <<raceVars, sentenceVars, voiceVars, ingestVars, dashVars, defaultDataCSV, data,
                   error, activeView, screen, timerPending, reads, isLoading, fileName,
                   dataBefore>>

\* the reset button of Sidebar: App shows FileUpload, Dashboard is unmounted
ResetDashboard ==
    /\ mounted
    /\ data' = Null /\ error' = Null /\ screen' = "upload"
    /\ filters' = NoResult /\ thresholds' = NoResult
    /\ filteredData' = << >> /\ memo' = NoResult
    /\ lastEvent' = "reset"
    /\ UNCHANGED <<raceVars, sentenceVars, voiceVars, ingestVars, currentYear, defaultDataCSV,
                   activeView, timerPending, reads, isLoading, fileName, dataBefore>>

-----------------------------------------------------------------------------
(* Record lists for the views *)

MaxCases == 3

c1 == <<"1">>
c3 == <<"3">>
c5 == <<"5">>
c400 == <<"4","0","0">>
cNolle == <<"N","o","l","l","e"," ","P","r","o","s","e","c","u","t","i","o","n">>
cTheft == <<"T","h","e","f","t">>
cEvanston == <<"E","v","a","n","s","t","o","n">>
cDate2020 == <<"2","0","2","0","-","0","6","-","1","5">>

raceKind(race) == "RAZA" :> race
termKind(term) == "TERMINO_COMPROMISO" :> term

\* the rows the record lists are made of: they differ in race, sentence,
\* disposition and duration
ViewKinds ==
    { BaseKind,
      raceKind(sWhite),
      raceKind(sWhite) @@ termKind(cNaturalLife) @@ ("DURACION_CASO_EN_DIAS" :> c400),
      raceKind(sHispanic) @@ termKind(sNA) @@ ("DISPOSICION_CARGO" :> cNolle)
          @@ ("DURACION_CASO_EN_DIAS" :> c7),
      termKind(c18) @@ ("UNIDAD_COMPROMISO" :> cMonths) @@ ("DURACION_CASO_EN_DIAS" :> c0)
          @@ ("FECHA_RECEPCION" :> cDate2021) }

\* 2 "Black" cases with sentences of 3 and 5 years, 2 "White" cases with
\* sentences of 1 year, every other field the same
SentencingExampleTable ==
    table(FullHeaders, <<termKind(c3), termKind(c5),
                         raceKind(sWhite) @@ termKind(c1), raceKind(sWhite) @@ termKind(c1)>>)

\* 4 cases of three races that differ in race only
ThreeRacesTable ==
    table(FullHeaders, <<BaseKind, BaseKind, raceKind(sWhite), raceKind(sHispanic)>>)

\* a life sentence, a term without a recognized unit and a term in days
\* among the cases of one race
MixedSentencesTable ==
    table(FullHeaders, <<termKind(cNaturalLife), termKind(c2) @@ ("UNIDAD_COMPROMISO" :> cTerm),
                         termKind(c730) @@ ("UNIDAD_COMPROMISO" :> cDays), BaseKind,
                         raceKind(sWhite) @@ termKind(sNA)>>)

c37 == <<"3","7">>

\* mean sentences of 2 years and of 37 months
RatioBetweenTable ==
    table(FullHeaders, <<BaseKind,
                         raceKind(sWhite) @@ termKind(c37) @@ ("UNIDAD_COMPROMISO" :> cMonths)>>)

cOtherMix == <<"O","t","h","e","r",","," ","m","i","x">>
cMixB == <<"M","i","x"," ","\"","b","\"">>
cDoeJane == <<"D","o","e",","," ","J","a","n","e">>

\* a race with a comma, a race with double quotes, a judge with a comma
DelimiterTable ==
    table(FullHeaders, <<raceKind(cOtherMix) @@ ("JUEZ_SENTENCIA" :> cDoeJane),
                         raceKind(cMixB)>>)

ViewTables ==
    { table(FullHeaders, ks) : ks \in SeqsUpTo(ViewKinds, MaxCases) }
    \cup {SentencingExampleTable, ThreeRacesTable, MixedSentencesTable, RatioBetweenTable,
          DelimiterTable}

\* the records with the Date of an unparseable text
withInvalidDates(cases) == [i \in 1..Len(cases) |-> [cases[i] EXCEPT !.FECHA_RECEPCION = NaN]]

CurrentYears == {2025, 2026}

\* Dashboard is about to be rendered for a record list.  The list is what
\* ingestion returned for a table; the empty list (the table without rows)
\* and a list without a valid date are the inputs yearExtent guards against
InitViews ==
    /\ csv \in ViewTables
    /\ result = parseAndCleanData(csv)
    /\ \E cases \in {result.data} \cup
                    (IF Len(result.data) = 1 THEN {withInvalidDates(result.data)} ELSE {}) :
          DashboardShown(cases)
    /\ currentYear \in CurrentYears
    /\ filters = NoResult /\ thresholds = NoResult
    /\ filteredData = << >> /\ memo = NoResult
    /\ raceIn = undefined /\ raceOut = "none"
    /\ SentenceIdle
    /\ VoiceIdle

NextViews ==
    \/ MountDashboard
    \/ NavigateDashboard
    \/ ExportCSV
    \/ ExportPDF

SpecViews == InitViews /\ [][NextViews]_vars

-----------------------------------------------------------------------------
(* Record lists for the filters *)

\* three years, two offense categories and two cities
FilterExampleTable ==
    table(FullHeaders,
          << BaseKind,
             raceKind(sWhite) @@ ("FECHA_RECEPCION" :> cDate2021)
                 @@ ("CATEGORIA_DELITO_ACTUALIZADA" :> cTheft),
             termKind(c5) @@ ("FECHA_RECEPCION" :> cDate2020)
                 @@ ("CIUDAD_INCIDENTE" :> cEvanston),
             raceKind(sWhite) @@ termKind(c1) @@ ("FECHA_RECEPCION" :> cDate2021)
                 @@ ("CATEGORIA_DELITO_ACTUALIZADA" :> cTheft)
                 @@ ("CIUDAD_INCIDENTE" :> cEvanston) >>)

\* two consecutive years
TwoYearsTable ==
    table(FullHeaders,
          << termKind(cNaturalLife) @@ ("FECHA_RECEPCION" :> cDate2020),
             raceKind(sHispanic) @@ ("FECHA_RECEPCION" :> cDate2021)
                 @@ ("CATEGORIA_DELITO_ACTUALIZADA" :> cTheft) >>)

DashboardTables ==
    {FilterExampleTable, TwoYearsTable, ValidTableA, SentencingExampleTable}

InitDashboard ==
    /\ csv \in DashboardTables
    /\ result = parseAndCleanData(csv)
    /\ DashboardShown(result.data)
    /\ currentYear \in CurrentYears
    /\ filters = NoResult /\ thresholds = NoResult
    /\ filteredData = << >> /\ memo = NoResult
    /\ raceIn = undefined /\ raceOut = "none"
    /\ SentenceIdle
    /\ VoiceIdle

NextDashboard ==
    \/ MountDashboard
    \/ NavigateDashboard
    \/ ChangeYearFrom
    \/ ChangeYearTo
    \/ ChangeOffense
    \/ ChangeCity
    \/ ExportCSV
    \/ ExportPDF
    \/ ResetDashboard

SpecDashboard == InitDashboard /\ [][NextDashboard]_vars


-----------------------------------------------------------------------------
(* C13: life sentences and missing sentences in the mean sentences *)

\* the record carries a sentence that is a number of years, not the life code
countsForMean(d) ==
    /\ Undefined # d.SENTENCE_IN_YEARS
    /\ <<99, 1>> # d.SENTENCE_IN_YEARS

\* the mean sentence of a race over the records that count, 0 without any
meanSentence(cases, race) ==
    LET counted == SelectSeq(cases, LAMBDA d : d.RAZA = race /\ countsForMean(d)) IN
    IF counted = << >> THEN Num(0)
    ELSE FracDiv(sum([i \in 1..Len(counted) |-> counted[i].SENTENCE_IN_YEARS]),
                 Num(Len(counted)))

rendered(component) == memo # NoResult /\ memo.fn = component

\* the sentencing score is the score of the records that count
C13_BiasSummaryExcludes ==
    rendered("BiasSummaryDashboard") =>
        memo.value.sent =
            BiasSummaryDashboard(SelectSeq(filteredData, countsForMean), thresholds).sent

\* the sentencing view shows the mean of the records that count
C13_SentencingViewExcludes ==
    rendered("SentencingAnalysis") =>
        \A i \in 1..Len(memo.value) :
            memo.value[i].avgSentence =
                parseFloat(toFixed2(meanSentence(filteredData, memo.value[i].name)))

\* the intersectional view plots the records that count
C13_IntersectionalExcludes ==
    rendered("IntersectionalAnalysis") =>
        /\ Len(memo.value) = Len(SelectSeq(filteredData, countsForMean))
        /\ \A i \in 1..Len(memo.value) :
              /\ Undefined # memo.value[i].sentence
              /\ <<99, 1>> # memo.value[i].sentence

exportedSummary ==
    rendered("handleExportCSV") /\ memo.summary /\ "rows" \in DOMAIN memo.value

\* the summary export writes the mean of the records that count
C13_SummaryExportExcludes ==
    exportedSummary =>
        \A i \in 2..Len(memo.value.rows) :
            memo.value.rows[i][3] =
                toFixed2(meanSentence(filteredData, memo.value.rows[i][1]))

\* C13: records whose sentence is the life code 99, and records without a
\* sentence, contribute to no mean sentence: the sentencing score of the bias
\* summary, the mean per race of the sentencing view, the summary export per
\* race and the intersectional view all leave them out
C13_LifeExcludedFromEveryMean ==
    /\ C13_BiasSummaryExcludes
    /\ C13_SentencingViewExcludes
    /\ C13_IntersectionalExcludes
    /\ C13_SummaryExportExcludes

-----------------------------------------------------------------------------
(* C16: the bounds of the year range *)

\* the years of the records App holds that have a year
receivedYears ==
    {data[i].FECHA_RECEPCION[1] : i \in {j \in 1..Len(data) : data[j].FECHA_RECEPCION # << >>}}

\* C16: the bounds of the year range are the least and the greatest received
\* year of the loaded records; without a record, or without a record that has
\* a valid year, they are the 20 years up to the current year; they are
\* finite numbers and the lower one is not above the upper one
C16_YearBounds ==
    mounted =>
        LET lo == yearExtentMemo[1]
            hi == yearExtentMemo[2]
        IN /\ lo \in Int /\ hi \in Int
           /\ lo <= hi
           /\ IF receivedYears = {}
              THEN lo = currentYear - 20 /\ hi = currentYear
              ELSE /\ lo \in receivedYears /\ hi \in receivedYears
                   /\ \A y \in receivedYears : lo <= y /\ y <= hi

\* records of 2019 and 2021, the later one first
C16_Witness ==
    /\ mounted
    /\ Len(data) = 2
    /\ data[1].FECHA_RECEPCION[1] = 2021
    /\ data[2].FECHA_RECEPCION[1] = 2019
    /\ filters.yearRange = <<2019, 2021>>

\* the default window: no record, and a record without a valid year
C16_DefaultForEmpty ==
    mounted /\ data = << >> /\ yearExtentMemo = <<currentYear - 20, currentYear>>

C16_DefaultForNoValidYear ==
    mounted /\ Len(data) = 1 /\ receivedYears = {}
            /\ yearExtentMemo = <<currentYear - 20, currentYear>>

-----------------------------------------------------------------------------
(* C17: no disparity without two groups to compare *)

\* the demographic groups among the records shown
groupsShown == {filteredData[i].RAZA : i \in 1..Len(filteredData)}

finiteNumber(q) == q[2] > 0

\* C17: for no record and for records of a single group the sentencing ratio
\* is exactly 1, the disposition spread and the duration spread are exactly
\* 0, every sub-score and the overall score is a finite number and there is
\* no sentencing finding; the ratio is also 1 when no group has a positive
\* mean sentence
C17_NoDisparityWithoutGroups ==
    rendered("BiasSummaryDashboard") =>
        /\ Cardinality(groupsShown) <= 1 =>
              /\ Num(1) = maxSentDiff(filteredData)
              /\ Num(0) = maxDispRateDiff(filteredData)
              /\ Num(0) = maxDurDiff(filteredData)
              /\ \A score \in {memo.value.rep, memo.value.disp, memo.value.sent,
                               memo.value.dur, memo.value.global} : finiteNumber(score)
              /\ memo.value.sent = Num(100)
              /\ memo.value.disp = Num(100)
              /\ memo.value.dur = Num(100)
              /\ \A i \in 1..Len(memo.value.findings) :
                    memo.value.findings[i] # SentencingFinding
        /\ (\A race \in groupsShown : meanSentence(filteredData, race) = Num(0)) =>
              /\ Num(1) = maxSentDiff(filteredData)
              /\ memo.value.sent = Num(100)

\* two records of one group that differ in sentence, duration and year
C17_Witness ==
    /\ rendered("BiasSummaryDashboard")
    /\ Cardinality(groupsShown) = 1
    /\ Len(filteredData) = 2
    /\ filteredData[1].SENTENCE_IN_YEARS = <<2, 1>>
    /\ filteredData[2].SENTENCE_IN_YEARS = <<3, 2>>
    /\ filteredData[1].DURACION_CASO_EN_DIAS # filteredData[2].DURACION_CASO_EN_DIAS
    /\ memo.value.global = Num(100)

\* two groups, neither with a positive mean sentence
C17_NoPositiveMean ==
    /\ rendered("BiasSummaryDashboard")
    /\ Cardinality(groupsShown) = 2
    /\ \A race \in groupsShown : meanSentence(filteredData, race) = Num(0)
    /\ memo.value.sent = Num(100)

\* no record
C17_Empty ==
    /\ rendered("BiasSummaryDashboard")
    /\ filteredData = << >>
    /\ memo.value.global = Num(100)

-----------------------------------------------------------------------------
(* C18: the four sub-scores and the overall score *)

atMost(a, b) == a = b \/ FracLess(a, b)

inScoreRange(score) == atMost(Num(0), score) /\ atMost(score, Num(100))

\* record lists the records shown are compared with
ComparisonLists ==
    {parseAndCleanData(t).data :
        t \in {SentencingExampleTable, ThreeRacesTable, MixedSentencesTable,
               FilterExampleTable, TwoYearsTable, ValidTableA}}

\* the deviation measure behind each sub-score
deviation(kind, cases) ==
    CASE kind = "rep" -> maxRepDeviation(cases)
      [] kind = "disp" -> maxDispRateDiff(cases)
      [] kind = "sent" -> FracSub(maxSentDiff(cases), Num(1))
      [] kind = "dur" -> maxDurDiff(cases)

\* the deviation measures and the scores of the record lists compared with
ComparisonPoints ==
    {[deviations |-> [kind \in {"rep", "disp", "sent", "dur"} |-> deviation(kind, other)],
      scores |-> BiasSummaryDashboard(other, defaultThresholds)] : other \in ComparisonLists}

\* C18: each of the four sub-scores (representation, disposition, sentencing,
\* duration) is between 0 and 100, is 100 when its deviation measure is 0,
\* is not higher for records with a higher deviation measure, and the
\* overall score is the unweighted mean of the four, hence between 0 and 100
C18_ScoresBoundedMonotoneMean ==
    (rendered("BiasSummaryDashboard") /\ filteredData # << >>) =>
        /\ \A kind \in {"rep", "disp", "sent", "dur"} :
              LET measure == deviation(kind, filteredData) IN
              /\ inScoreRange(memo.value[kind])
              /\ measure = Num(0) => memo.value[kind] = Num(100)
              /\ \A other \in ComparisonPoints :
                    /\ atMost(measure, other.deviations[kind]) =>
                          atMost(other.scores[kind], memo.value[kind])
                    /\ atMost(other.deviations[kind], measure) =>
                          atMost(memo.value[kind], other.scores[kind])
        /\ memo.value.global =
              FracDiv(FracAdd(FracAdd(memo.value.rep, memo.value.disp),
                              FracAdd(memo.value.sent, memo.value.dur)), Num(4))
        /\ inScoreRange(memo.value.global)

\* two sub-scores strictly inside the range, one at 100
C18_Witness ==
    /\ rendered("BiasSummaryDashboard")
    /\ FracLess(Num(0), memo.value.sent) /\ FracLess(memo.value.sent, Num(100))
    /\ FracLess(Num(0), memo.value.dur) /\ FracLess(memo.value.dur, Num(100))
    /\ memo.value.rep = Num(100)
    /\ FracLess(Num(0), memo.value.global) /\ FracLess(memo.value.global, Num(100))

\* no record: every score is 100
C18_ScoresOfNoRecord ==
    (rendered("BiasSummaryDashboard") /\ filteredData = << >>) =>
        \A kind \in {"rep", "disp", "sent", "dur", "global"} : memo.value[kind] = Num(100)

-----------------------------------------------------------------------------
(* C19: two groups with mean sentences of 4 years and 1 year *)

\* the fields of a record other than its identifiers, race and sentence
OtherFields ==
    {"FECHA_RECEPCION", "GENERO", "EDAD_AL_INCIDENTE", "CATEGORIA_DELITO",
     "DISPOSICION_CARGO", "TIPO_SENTENCIA", "UNIDAD_COMPROMISO",
     "DURACION_CASO_EN_DIAS", "CIUDAD_INCIDENTE", "JUEZ_SENTENCIA"}

\* 4 cases: 2 "Black" with sentences of 3 and 5 years, 2 "White" with
\* sentences of 1 year, all other fields equal
isSentencingExample(cases) ==
    /\ Len(cases) = 4
    /\ \E p \in [1..4 -> 1..4] :
          /\ \A i, j \in 1..4 : i # j => p[i] # p[j]
          /\ cases[p[1]].RAZA = sBlack /\ cases[p[1]].SENTENCE_IN_YEARS = <<3, 1>>
          /\ cases[p[2]].RAZA = sBlack /\ cases[p[2]].SENTENCE_IN_YEARS = <<5, 1>>
          /\ cases[p[3]].RAZA = sWhite /\ cases[p[3]].SENTENCE_IN_YEARS = <<1, 1>>
          /\ cases[p[4]].RAZA = sWhite /\ cases[p[4]].SENTENCE_IN_YEARS = <<1, 1>>
    /\ \A i \in 1..4 : \A key \in OtherFields : cases[i][key] = cases[1][key]

\* C19: for 2 "Black" cases with sentences of 3 and 5 years and 2 "White"
\* cases with sentences of 1 year, equal in every other field, the sentencing
\* disparity ratio is 4 and, with the default thresholds, the bias summary
\* has exactly one finding, the sentencing one; the sentencing view shows the
\* means 4 and 1
C19_SentencingExample ==
    isSentencingExample(filteredData) =>
        /\ rendered("BiasSummaryDashboard") =>
              /\ thresholds = defaultThresholds
              /\ Num(4) = maxSentDiff(filteredData)
              /\ memo.value.findings = <<SentencingFinding>>
        /\ rendered("SentencingAnalysis") =>
              memo.value = <<[name |-> sBlack, avgSentence |-> parseFloat(<<"4">>)],
                             [name |-> sWhite, avgSentence |-> parseFloat(<<"1">>)]>>

C19_Witness ==
    /\ isSentencingExample(filteredData)
    /\ rendered("BiasSummaryDashboard")
    /\ memo.value.findings = <<SentencingFinding>>
    /\ memo.value.sent = Num(0)

-----------------------------------------------------------------------------
(* C20: no finding when no threshold is crossed *)

\* the share of a race among the records shown, in percent
shareOf(race) ==
    FracDiv(Num(100 * Cardinality({i \in 1..Len(filteredData) : filteredData[i].RAZA = race})),
            Num(Len(filteredData)))

\* every share is within the representation band, the disposition spread,
\* the sentencing ratio and the duration spread are within their thresholds
withinThresholds ==
    /\ \A race \in groupsShown :
          /\ atMost(Num(thresholds.representation.under), shareOf(race))
          /\ atMost(shareOf(race), Num(thresholds.representation.over))
    /\ atMost(maxDispRateDiff(filteredData), Num(thresholds.disposition))
    /\ atMost(maxSentDiff(filteredData), thresholds.sentencing)
    /\ atMost(maxDurDiff(filteredData), Num(thresholds.duration))

\* C20: when every race share is within the representation band [10%, 60%],
\* the disposition spread is at most 15 percentage points, the sentencing
\* ratio is at most 1.5 and the duration spread is at most 60 days, the
\* findings list of BiasSummaryDashboard is empty
C20_NoFindingWithinThresholds ==
    (rendered("BiasSummaryDashboard") /\ thresholds = defaultThresholds /\ withinThresholds) =>
        memo.value.findings = << >>

\* within the thresholds the only finding is the representation one
C20_OnlyRepresentationFinding ==
    (rendered("BiasSummaryDashboard") /\ withinThresholds) =>
        \A i \in 1..Len(memo.value.findings) :
            memo.value.findings[i] = RepresentationFinding

-----------------------------------------------------------------------------
(* C14: the filter *)

\* the record is within the filters: its received year is in the inclusive
\* year range, the offense filter is "All" or its category, the city filter
\* is "All" or its city
withinFilters(d) ==
    /\ d.FECHA_RECEPCION # << >>
    /\ filters.yearRange[1] <= d.FECHA_RECEPCION[1]
    /\ d.FECHA_RECEPCION[1] <= filters.yearRange[2]
    /\ (filters.offenseCategory = <<"A","l","l">> \/ filters.offenseCategory = d.CATEGORIA_DELITO)
    /\ (filters.incidentCity = <<"A","l","l">> \/ filters.incidentCity = d.CIUDAD_INCIDENTE)

\* the positions of the loaded records that are within the filters
keptPositions == {i \in 1..Len(data) : withinFilters(data[i])}

\* C14: the records shown are a sub-sequence of the loaded records (not
\* longer, in the same order), a record is shown exactly when it is within
\* the filters, and with the full year extent and both filters "All" the
\* records shown are the loaded records
C14_FilterIsSubset ==
    mounted =>
        /\ Len(filteredData) <= Len(data)
        /\ Len(filteredData) = Cardinality(keptPositions)
        /\ \A k \in 1..Len(filteredData) :
              \E i \in keptPositions :
                 /\ Cardinality({j \in keptPositions : j <= i}) = k
                 /\ filteredData[k] = data[i]
        /\ (/\ filters.yearRange = yearExtentMemo
            /\ filters.offenseCategory = <<"A","l","l">>
            /\ filters.incidentCity = <<"A","l","l">>) => filteredData = data

\* a year range, an offense category and a city that keep 1 record of 4,
\* the upper end of the year range being the year of that record
C14_Witness ==
    /\ mounted
    /\ Len(data) = 4
    /\ filters.yearRange = <<2019, 2020>>
    /\ filters.offenseCategory = <<"D","r","u","g","s">>
    /\ filters.incidentCity = <<"E","v","a","n","s","t","o","n">>
    /\ filteredData = <<data[3]>>

-----------------------------------------------------------------------------
(* C15: the loaded records under filter changes, view changes and exports *)

\* C15: while Dashboard is shown the loaded records are the records
\* ingestion returned, and every step other than a reset (a change of the
\* year range, of the offense category or of the city, a change of view, an
\* export) leaves the list and every record in it as they were
C15_CanonicalSetUntouched ==
    /\ [](mounted => data = result.data)
    /\ [][lastEvent' # "reset" => data' = data]_vars

\* an export after a change of the year range, of the category and of the
\* city that left 1 record of 4
C15_Witness ==
    /\ rendered("handleExportCSV")
    /\ filters.yearRange = <<2020, 2021>>
    /\ filters.offenseCategory = <<"T","h","e","f","t">>
    /\ filters.incidentCity = <<"E","v","a","n","s","t","o","n">>
    /\ Len(filteredData) = 1
    /\ Len(data) = 4
    /\ data = result.data

-----------------------------------------------------------------------------
(* C21: one finding per violated rule *)

found(finding) ==
    \E i \in 1..Len(memo.value.findings) : memo.value.findings[i] = finding

\* a sentencing finding whenever the ratio of the mean sentences is above
\* the configured multiplier
C21_SentencingRule ==
    (rendered("BiasSummaryDashboard") /\ filteredData # << >>) =>
        (FracLess(thresholds.sentencing, maxSentDiff(filteredData)) => found(SentencingFinding))

\* a duration finding whenever the spread of the mean durations is above the
\* configured number of days
C21_DurationRule ==
    (rendered("BiasSummaryDashboard") /\ filteredData # << >>) =>
        (FracLess(Num(thresholds.duration), maxDurDiff(filteredData)) => found(DurationFinding))

\* a disposition finding whenever the spread of the outcome rates is above
\* the configured number of percentage points
C21_DispositionRule ==
    (rendered("BiasSummaryDashboard") /\ filteredData # << >>) =>
        (FracLess(Num(thresholds.disposition), maxDispRateDiff(filteredData)) =>
            found(DispositionFinding))

\* the findings are in the order representation, disposition, sentencing,
\* duration, at most one each
C21_FindingsInOrder ==
    rendered("BiasSummaryDashboard") =>
        \E kept \in SUBSET (1..4) :
            memo.value.findings =
                SelectSeq(<<RepresentationFinding, DispositionFinding,
                            SentencingFinding, DurationFinding>>,
                          LAMBDA finding :
                              \E k \in kept :
                                  <<RepresentationFinding, DispositionFinding,
                                    SentencingFinding, DurationFinding>>[k] = finding)

\* C21: the findings list has a sentencing finding whenever the ratio of the
\* greatest to the least mean sentence per race is above the configured
\* multiplier (1.5), a duration finding whenever the spread of the mean
\* durations per race is above the configured days (60), a disposition
\* finding whenever the spread of the outcome rates per race is above the
\* configured percentage points (15); the findings are in the order
\* representation, disposition, sentencing, duration, at most one each
C21_FindingPerViolatedRule ==
    /\ C21_SentencingRule
    /\ C21_DurationRule
    /\ C21_DispositionRule
    /\ C21_FindingsInOrder

-----------------------------------------------------------------------------
(* C22: the exported rows read back as comma-delimited text *)

\* percent-decoding: the file the browser writes for the href
percentDecoded(text) ==
    concat([i \in 1..Len(text) |->
               IF text[i] = "%"
               THEN <<CHOOSE c \in DOMAIN UriEscapes : UriEscapes[c] = SubSeq(text, i, i + 2)>>
               ELSE IF (i > 1 /\ text[i - 1] = "%") \/ (i > 2 /\ text[i - 2] = "%")
               THEN << >>
               ELSE <<text[i]>>])

\* the positions at which a line of the file ends
lineEnds(content) ==
    {i \in 2..Len(content) : content[i - 1] = "\r" /\ content[i] = "\n"}

\* the lines of the file
linesOf(content) ==
    {SubSeq(content,
            1 + (IF \E e \in lineEnds(content) : e < end
                 THEN CHOOSE e \in lineEnds(content) :
                          e < end /\ \A o \in lineEnds(content) : o < end => o <= e
                 ELSE 0),
            end - 2) : end \in lineEnds(content)}

\* reading a line field by field: at the start of a field (1), in a field
\* without quotes (2), in a quoted field (3), after the double quote that may
\* close a quoted field (4).  A field that starts with a double quote runs to
\* the closing double quote, a doubled one standing for the character; any
\* other field runs to the next comma
readChar(mode, c) ==
    IF mode = 3 THEN (IF c = "\"" THEN <<4, 0>> ELSE <<3, 0>>)
    ELSE IF c = "," THEN <<1, 1>>
    ELSE IF c = "\"" /\ mode \in {1, 4} THEN <<3, 0>>
    ELSE <<2, 0>>

\* for each mode before line[lo], the mode after line[hi] and the number of
\* fields that ended in between
RECURSIVE readSpan(_, _, _)
readSpan(line, lo, hi) ==
    IF lo = hi THEN <<readChar(1, line[lo]), readChar(2, line[lo]),
                      readChar(3, line[lo]), readChar(4, line[lo])>>
    ELSE LET mid == (lo + hi) \div 2
             first == readSpan(line, lo, mid)
             second == readSpan(line, mid + 1, hi)
             through(m) == <<second[first[m][1]][1], first[m][2] + second[first[m][1]][2]>>
         IN <<through(1), through(2), through(3), through(4)>>

\* the number of fields of a line
fieldCount(line) == IF line = << >> THEN 1 ELSE 1 + readSpan(line, 1, Len(line))[1][2]

\* the file of the export in the memo, without the prefix of the href
exportedFile == percentDecoded(Tail(memo.value.href))

exported(summary) ==
    rendered("handleExportCSV") /\ memo.summary = summary /\ "href" \in DOMAIN memo.value

\* every line of the file has the number of fields of the header row
everyLineHas(fields) ==
    /\ Cardinality(lineEnds(exportedFile)) = Len(memo.value.rows)
    /\ \A line \in linesOf(exportedFile) : fieldCount(line) = fields

C22_FullExportParsesBack == exported(FALSE) => everyLineHas(15)

C22_SummaryExportParsesBack == exported(TRUE) => everyLineHas(3)

\* C22: in the full export and in the summary export every data row reads
\* back, as comma-delimited text with double-quote quoting, into as many
\* fields as the header row, also when a value such as the race holds a
\* comma or a double quote
C22_ExportRowsParseBack ==
    /\ C22_FullExportParsesBack
    /\ C22_SummaryExportParsesBack

\* the full export of records whose race and judge hold commas and quotes
C22_FullExportWithDelimiters ==
    /\ exported(FALSE)
    /\ \E i \in 1..Len(filteredData) :
          \E k \in 1..Len(filteredData[i].RAZA) : filteredData[i].RAZA[k] = ","
    /\ \E i \in 1..Len(filteredData) :
          \E k \in 1..Len(filteredData[i].RAZA) : filteredData[i].RAZA[k] = "\""
    /\ everyLineHas(15)

-----------------------------------------------------------------------------
(* C23: the empty-input error *)

\* the table has no header row or no data row
emptyInput == csv.columns = << >> \/ csv.rows = << >>

\* C23: the call fails with the empty-input error, and returns no record,
\* exactly when the parsed table has no header row or no data row; the
\* required columns are looked up only after this check
C23_EmptyInputError ==
    result # NoResult =>
        /\ emptyInput <=> (<<"El archivo CSV esta vacio o tiene un formato incorrecto.">>
                              = result.error)
        /\ emptyInput => result.data = << >>

\* a header row without two of the required columns and no data row
C23_Witness ==
    /\ result # NoResult
    /\ csv.rows = << >>
    /\ csv.columns # << >>
    /\ RequiredSet \ columnSet(csv) = {"RAZA", "GENERO"}
    /\ EmptyCsvError = result.error
    /\ result.data = << >>

-----------------------------------------------------------------------------
(* C24: the no-valid-records error *)

\* the header row has every required column and there is a data row
schemaResolves == RequiredSet \subseteq columnSet(csv) /\ csv.rows # << >>

\* every row has an invalid date, or race or gender "Unknown"
everyRowDropped == \A i \in 1..Len(csv.rows) : ~retains(csv.rows[i])

\* C24: when the required columns are present and every row is dropped (bad
\* date, race or gender "Unknown") the call fails with the no-valid-records
\* error and returns no record; when at least one row survives there is no
\* error, whatever is wrong with the other rows
C24_NoValidRecordsError ==
    (result # NoResult /\ schemaResolves) =>
        IF everyRowDropped
        THEN /\ <<"No se encontraron registros validos en el archivo. Verifique las columnas y el formato de los datos.">>
                    = result.error
             /\ result.data = << >>
        ELSE /\ result.error = Null
             /\ Len(result.data) >= 1

\* three rows, dropped for race, for the date and for gender
C24_Witness ==
    /\ result # NoResult
    /\ schemaResolves
    /\ Len(csv.rows) = 3
    /\ csv.rows[1]["RAZA"] = sNA
    /\ csv.rows[2]["FECHA_RECEPCION"] = cNotADate
    /\ csv.rows[3]["GENERO"] = sNA
    /\ NoValidRecordsError = result.error
    /\ result.data = << >>

\* a row is dropped, another survives, there is no error
C24_SurvivorWithDroppedRow ==
    /\ result # NoResult
    /\ schemaResolves
    /\ \E i \in 1..Len(csv.rows) : ~retains(csv.rows[i])
    /\ result.error = Null
    /\ Len(result.data) >= 1

-----------------------------------------------------------------------------
(* Loads that complete while Dashboard is shown *)

\* variant: the effect on yearExtent is left out
syncYearRange_keep(f, extent) == f

\* the effect on yearExtent: setFilters(f => ({ ...f, yearRange: yearExtent }))
syncYearRange(f, extent) == [f EXCEPT !.yearRange = extent]

\* Dashboard in the render that follows a load: it is unmounted when App
\* shows FileUpload, mounted when it was not, and otherwise rendered with the
\* new records, after which the effect on yearExtent sets the year range
dashboardAfterLoad(next) ==
    IF next.screen = "upload"
    THEN /\ filters' = NoResult /\ thresholds' = NoResult
         /\ filteredData' = << >> /\ memo' = NoResult
    ELSE LET f == IF mounted
                  THEN syncYearRange(filters, yearExtent(next.data, currentYear))
                  ELSE initialFilters(yearExtent(next.data, currentYear))
             shown == computeFilteredData(next.data, f)
         IN /\ filters' = f
            /\ thresholds' = defaultThresholds
            /\ filteredData' = shown
            /\ memo' = renderContent(next.activeView, next.data, shown, defaultThresholds)

\* the timer callback of App while the records of a user's file are shown
TimerFiresShown ==
    /\ timerPending
    /\ timerPending' = FALSE
    /\ LET r == parseAndCleanData(defaultDataCSV) IN
       /\ csv' = defaultDataCSV
       /\ result' = r
       /\ render(defaultLoad(r), isLoading, fileName, reads)
       /\ dashboardAfterLoad(defaultLoad(r))
    /\ dataBefore' = data
    /\ lastEvent' = "timer"
    /\ UNCHANGED <<raceVars, sentenceVars, voiceVars, currentYear, defaultDataCSV>>

\* reader.onload of an outstanding read while records are shown
ReaderOnloadShown ==
    \E i \in 1..Len(reads) :
        LET r == parseAndCleanData(reads[i].text) IN
        /\ csv' = reads[i].text
        /\ result' = r
        /\ render(handleDataLoaded(r),
                  IF reads[i].mounted THEN FALSE ELSE isLoading,
                  fileName,
                  removeAt(reads, i))
        /\ dashboardAfterLoad(handleDataLoaded(r))
        /\ dataBefore' = data
        /\ lastEvent' = "onload"
        /\ UNCHANGED <<raceVars, sentenceVars, voiceVars, currentYear, defaultDataCSV, timerPending>>

\* records of 2019, 2021 and 2020
ThreeYearsTable ==
    table(FullHeaders,
          << BaseKind,
             raceKind(sWhite) @@ ("FECHA_RECEPCION" :> cDate2021)
                 @@ ("CATEGORIA_DELITO_ACTUALIZADA" :> cTheft),
             termKind(c5) @@ ("FECHA_RECEPCION" :> cDate2020)
                 @@ ("CIUDAD_INCIDENTE" :> cEvanston) >>)

\* the tables of the loads: three years, two years, one year, no valid row
ReloadTables == {ThreeYearsTable, TwoYearsTable, ValidTableA, AllDroppedTable}

\* Dashboard is about to be rendered for the records of a first load while
\* another load is outstanding: the default load of the timer, or the read
\* of a file picked before FileUpload was unmounted
InitReload ==
    /\ csv \in ReloadTables
    /\ result = parseAndCleanData(csv)
    /\ result.error = Null
    /\ data = result.data /\ error = Null /\ activeView = "home" /\ screen = "dashboard"
    /\ \E t \in ReloadTables :
          \/ /\ timerPending = TRUE /\ defaultDataCSV = t /\ reads = << >>
          \/ /\ timerPending = FALSE /\ defaultDataCSV = csv
             /\ reads = <<[text |-> t, mounted |-> FALSE]>>
    /\ isLoading = FALSE /\ fileName = Null /\ lastEvent = "none" /\ dataBefore = Null
    /\ currentYear \in CurrentYears
    /\ filters = NoResult /\ thresholds = NoResult
    /\ filteredData = << >> /\ memo = NoResult
    /\ raceIn = undefined /\ raceOut = "none"
    /\ SentenceIdle
    /\ VoiceIdle

NextReload ==
    \/ MountDashboard
    \/ NavigateDashboard
    \/ ChangeYearFrom
    \/ ChangeYearTo
    \/ TimerFiresShown
    \/ ReaderOnloadShown

SpecReload == InitReload /\ [][NextReload]_vars

-----------------------------------------------------------------------------
(* C25: the year range of the filters within the year extent *)

C25_NarrowedAfterLoad ==
    /\ mounted
    /\ ~timerPending /\ reads = << >>
    /\ lastEvent = "yearTo"
    /\ yearExtentMemo = <<2019, 2021>>
    /\ filters.yearRange = <<2020, 2021>>

-----------------------------------------------------------------------------
(* C26: data, error and screen of App *)

\* data holds at least one record
nonEmptyRecordSet == IF data = Null THEN FALSE ELSE Len(data) > 0

\* C26: after every startup load, file load and reset of App, the screen is
\* 'dashboard' exactly when data is a non-empty record set, a non-null
\* error goes with data = null and the screen 'upload', and a load that
\* succeeds puts the whole set ingestion returned in place in that one step
C26_ConsistentTriple ==
    /\ [](/\ (screen = "dashboard") <=> nonEmptyRecordSet
          /\ error # Null => (data = Null /\ screen = "upload"))
    /\ [][(lastEvent' \in {"timer", "onload"} /\ result'.error = Null)
              => (data' = result'.data /\ error' = Null /\ screen' = "dashboard")]_vars

\* a load that succeeded replaced the different set of an earlier load
C26_Witness ==
    /\ lastEvent \in {"timer", "onload"}
    /\ result.error = Null
    /\ dataBefore # Null
    /\ data # dataBefore
    /\ screen = "dashboard"
    /\ data = result.data

-----------------------------------------------------------------------------
(* C27: the delayed default load and what the user loaded *)

\* the records (or their absence) are the same in both
sameData(before, after) == IF before = Null THEN after = Null ELSE before = after

\* C27: the delayed default load does not replace a dataset the user loaded
\* and does not clear an error shown for the user's file: when the timer
\* callback runs right after the read of a user's file completed, data and
\* error stay as that read left them
C27_DefaultLoadKeepsUserState ==
    [][(lastEvent = "onload" /\ lastEvent' = "timer")
          => (sameData(data, data') /\ error' = error)]_vars

\* C27, the dataset alone: the timer callback leaves the records of a
\* user's file that was loaded successfully
C27_DefaultLoadKeepsUserDataset ==
    [][(lastEvent = "onload" /\ screen = "dashboard" /\ lastEvent' = "timer")
          => sameData(data, data')]_vars

\* C27, the error alone: the timer callback leaves the error shown for a
\* user's file
C27_DefaultLoadKeepsUserError ==
    [][(lastEvent = "onload" /\ screen = "upload" /\ lastEvent' = "timer")
          => error' = error]_vars

-----------------------------------------------------------------------------
(* VoiceAssistant: startSession, stopSession, toggleSession and the callbacks
   of the live session *)

\* startSession calls that reach getUserMedia
MaxSessions == 2

Sessions == 1..MaxSessions

\* what a startSession call has created: start is its position ("unused",
\* "awaitMic" at await getUserMedia, "finished"), track the microphone track
\* of its stream, context its two audio contexts, nodes its media source and
\* script processor, promise what ai.live.connect returned, socket the
\* connection of the live session ("connecting", "open", "closed" after it
\* was open, "failed" when it never opened)
NoSession ==
    [start |-> "unused", track |-> "none", context |-> "none",
     nodes |-> "none", promise |-> "none", socket |-> "none"]

\* serverContent of a LiveServerMessage, as far as onmessage sets state from it
Messages == [modelTurn : BOOLEAN, turnComplete : BOOLEAN]

\* the body of stopSession after its await: the objects the refs hold are
\* stopped, disconnected and closed, the refs are cleared and the four flags
\* are set to false; ss is the sessions as the caller leaves them
stopSessionCleanup(ss) ==
    /\ sessions' =
          [k \in Sessions |->
              [ss[k] EXCEPT
                  !.track = IF mediaStreamRef = k /\ @ = "live" THEN "stopped" ELSE @,
                  !.nodes = IF (scriptProcessorRef = k \/ mediaStreamSourceRef = k)
                               /\ @ = "connected"
                            THEN "disconnected" ELSE @,
                  !.context = IF (inputAudioContextRef = k \/ outputAudioContextRef = k)
                                 /\ @ = "open"
                              THEN "closed" ELSE @]]
    /\ sessionPromiseRef' = 0
    /\ inputAudioContextRef' = 0
    /\ outputAudioContextRef' = 0
    /\ mediaStreamRef' = 0
    /\ scriptProcessorRef' = 0
    /\ mediaStreamSourceRef' = 0
    /\ isActive' = FALSE
    /\ isConnecting' = FALSE
    /\ isListening' = FALSE
    /\ isSpeaking' = FALSE

\* stopSession() as the toggle button, the close button and the backdrop
\* call it: with a session promise it waits for the promise and closes the
\* session before the cleanup; a promise that is already resolved lets it
\* finish before the next event, a rejected one makes the await throw
stopSession(event) ==
    /\ lastEvent' = event
    /\ IF sessionPromiseRef # 0
       THEN LET p == sessionPromiseRef IN
            CASE sessions[p].promise = "pending" ->
                    /\ stopsAwaiting' = stopsAwaiting \cup {p}
                    /\ UNCHANGED <<flagVars, refVars, sessions>>
              [] sessions[p].promise = "resolved" ->
                    /\ stopSessionCleanup([sessions EXCEPT ![p].socket = "closed"])
                    /\ UNCHANGED stopsAwaiting
              [] OTHER ->
                    UNCHANGED <<flagVars, refVars, sessions, stopsAwaiting>>
       ELSE /\ stopSessionCleanup(sessions)
            /\ UNCHANGED stopsAwaiting
    /\ UNCHANGED <<raceVars, sentenceVars, dashVars, ingestVars, env, defaultDataCSV, data,
                   error, activeView, screen, timerPending, reads, isLoading, fileName,
                   dataBefore>>

\* startSession up to its first await
startSession ==
    /\ lastEvent' = "start"
    /\ IF ~env.API_KEY
       THEN UNCHANGED <<flagVars, sessions>>
       ELSE IF ~env.mediaDevices
       THEN /\ isActive' = FALSE
            /\ isConnecting' = FALSE
            /\ UNCHANGED <<isListening, isSpeaking, sessions>>
       ELSE /\ \E k \in Sessions :
                  /\ sessions[k].start = "unused"
                  /\ \A j \in 1..(k - 1) : sessions[j].start # "unused"
                  /\ sessions' = [sessions EXCEPT ![k].start = "awaitMic"]
            /\ isActive' = TRUE
            /\ isConnecting' = TRUE
            /\ UNCHANGED <<isListening, isSpeaking>>
    /\ UNCHANGED <<raceVars, sentenceVars, dashVars, ingestVars, refVars, stopsAwaiting, env,
                   defaultDataCSV, data, error, activeView, screen, timerPending, reads,
                   isLoading, fileName, dataBefore>>

\* the round button
ToggleSession == IF isActive THEN stopSession("toggle") ELSE startSession

\* the close button of the dialog, rendered while isActive
CloseButton == isActive /\ stopSession("close")

\* a click on the backdrop of the dialog, rendered while isActive
BackdropClick == isActive /\ stopSession("backdrop")

\* what every callback and continuation leaves alone
voiceFrame ==
    UNCHANGED <<raceVars, sentenceVars, dashVars, ingestVars, env, defaultDataCSV, data,
                error, activeView, screen, timerPending, reads, isLoading, fileName,
                dataBefore>>

\* getUserMedia resolves: startSession continues to the end of its try block,
\* or to its catch block when the browser has no AudioContext
GetUserMediaResolves ==
    \E k \in Sessions :
        /\ sessions[k].start = "awaitMic"
        /\ mediaStreamRef' = k
        /\ IF ~env.AudioContext
           THEN /\ sessions' = [sessions EXCEPT ![k].start = "finished", ![k].track = "live"]
                /\ isActive' = FALSE
                /\ isConnecting' = FALSE
                /\ UNCHANGED <<sessionPromiseRef, inputAudioContextRef, outputAudioContextRef>>
           ELSE /\ sessions' = [sessions EXCEPT ![k].start = "finished",
                                                ![k].track = "live",
                                                ![k].context = "open",
                                                ![k].promise = "pending",
                                                ![k].socket = "connecting"]
                /\ inputAudioContextRef' = k
                /\ outputAudioContextRef' = k
                /\ sessionPromiseRef' = k
                /\ UNCHANGED <<isActive, isConnecting>>
        /\ lastEvent' = "getUserMedia"
        /\ UNCHANGED <<isListening, isSpeaking, scriptProcessorRef, mediaStreamSourceRef,
                       stopsAwaiting>>
        /\ voiceFrame

\* getUserMedia rejects: the catch block of startSession
GetUserMediaRejects ==
    \E k \in Sessions :
        /\ sessions[k].start = "awaitMic"
        /\ sessions' = [sessions EXCEPT ![k].start = "finished"]
        /\ isActive' = FALSE
        /\ isConnecting' = FALSE
        /\ lastEvent' = "getUserMedia"
        /\ UNCHANGED <<isListening, isSpeaking, refVars, stopsAwaiting>>
        /\ voiceFrame

\* the onopen callback of the k-th connection: without an input audio context
\* the non-null assertion fails and the catch block calls stopSession(true)
OnOpen ==
    \E k \in Sessions :
        /\ sessions[k].socket = "connecting"
        /\ IF inputAudioContextRef = 0
           THEN stopSessionCleanup([sessions EXCEPT ![k].socket = "open"])
           ELSE /\ sessions' = [sessions EXCEPT ![k].socket = "open", ![k].nodes = "connected"]
                /\ mediaStreamSourceRef' = k
                /\ scriptProcessorRef' = k
                /\ isConnecting' = FALSE
                /\ isListening' = TRUE
                /\ UNCHANGED <<isActive, isSpeaking, sessionPromiseRef, inputAudioContextRef,
                               outputAudioContextRef, mediaStreamRef>>
        /\ lastEvent' = "onopen"
        /\ UNCHANGED stopsAwaiting
        /\ voiceFrame

\* the promise of ai.live.connect resolves once the connection has opened;
\* a stopSession call waiting for it closes the session and cleans up
ConnectResolves ==
    \E k \in Sessions :
        /\ sessions[k].promise = "pending"
        /\ sessions[k].socket \in {"open", "closed"}
        /\ IF k \in stopsAwaiting
           THEN stopSessionCleanup([sessions EXCEPT ![k].promise = "resolved",
                                                    ![k].socket = "closed"])
           ELSE /\ sessions' = [sessions EXCEPT ![k].promise = "resolved"]
                /\ UNCHANGED <<flagVars, refVars>>
        /\ stopsAwaiting' = stopsAwaiting \ {k}
        /\ lastEvent' = "connected"
        /\ voiceFrame

\* the promise of ai.live.connect rejects before the connection opens; the
\* await of a stopSession call waiting for it throws
ConnectRejects ==
    \E k \in Sessions :
        /\ sessions[k].promise = "pending"
        /\ sessions[k].socket = "connecting"
        /\ sessions' = [sessions EXCEPT ![k].promise = "rejected", ![k].socket = "failed"]
        /\ stopsAwaiting' = stopsAwaiting \ {k}
        /\ lastEvent' = "rejected"
        /\ UNCHANGED <<flagVars, refVars>>
        /\ voiceFrame

\* the onmessage callback of the k-th connection, as far as it sets state
OnMessage ==
    \E k \in Sessions, message \in Messages :
        /\ sessions[k].socket = "open"
        /\ isSpeaking' = IF message.turnComplete THEN FALSE
                         ELSE IF message.modelTurn THEN TRUE ELSE isSpeaking
        /\ lastEvent' = "onmessage"
        /\ UNCHANGED <<isActive, isConnecting, isListening, refVars, sessions, stopsAwaiting>>
        /\ voiceFrame

\* the onerror callback of the k-th connection: stopSession(true)
OnError ==
    \E k \in Sessions :
        /\ sessions[k].socket \in {"connecting", "open"}
        /\ stopSessionCleanup(
              [sessions EXCEPT ![k].socket = IF @ = "connecting" THEN "failed" ELSE "closed"])
        /\ lastEvent' = "onerror"
        /\ UNCHANGED stopsAwaiting
        /\ voiceFrame

\* the onclose callback of the k-th connection, closed by the server
OnClose ==
    \E k \in Sessions :
        /\ sessions[k].socket = "open"
        /\ sessions' = [sessions EXCEPT ![k].socket = "closed"]
        /\ lastEvent' = "onclose"
        /\ UNCHANGED <<flagVars, refVars, stopsAwaiting>>
        /\ voiceFrame

\* VoiceAssistant as App mounts it next to Dashboard
InitVoice ==
    /\ isActive = FALSE /\ isConnecting = FALSE
    /\ isListening = FALSE /\ isSpeaking = FALSE
    /\ sessionPromiseRef = 0 /\ inputAudioContextRef = 0 /\ outputAudioContextRef = 0
    /\ scriptProcessorRef = 0 /\ mediaStreamSourceRef = 0 /\ mediaStreamRef = 0
    /\ sessions = [k \in Sessions |-> NoSession]
    /\ stopsAwaiting = {}
    /\ env \in [API_KEY : BOOLEAN, mediaDevices : BOOLEAN, AudioContext : BOOLEAN]
    /\ csv = ValidTableA
    /\ result = parseAndCleanData(csv)
    /\ DashboardShown(result.data)
    /\ raceIn = undefined /\ raceOut = "none"
    /\ SentenceIdle
    /\ DashboardIdle

NextVoice ==
    \/ ToggleSession
    \/ CloseButton
    \/ BackdropClick
    \/ GetUserMediaResolves
    \/ GetUserMediaRejects
    \/ OnOpen
    \/ ConnectResolves
    \/ ConnectRejects
    \/ OnMessage
    \/ OnError
    \/ OnClose

SpecVoice == InitVoice /\ [][NextVoice]_vars

-----------------------------------------------------------------------------
(* C28: resources while the voice assistant is inactive *)

\* no ref holds an object and no microphone track, audio context or audio
\* node made by a startSession call is in use
noResources ==
    /\ sessionPromiseRef = 0 /\ inputAudioContextRef = 0 /\ outputAudioContextRef = 0
    /\ scriptProcessorRef = 0 /\ mediaStreamSourceRef = 0 /\ mediaStreamRef = 0
    /\ \A k \in Sessions :
          /\ sessions[k].track # "live"
          /\ sessions[k].context # "open"
          /\ sessions[k].nodes # "connected"

\* C28: whenever isActive is false the voice assistant holds no resources:
\* the microphone stream, both audio contexts, the script processor, the
\* media source and the session promise are released and their refs null,
\* also after a startSession failure that follows the microphone grant and
\* after onerror
C28_InactiveHoldsNoResources == ~isActive => noResources

\* C28, the path through onerror: after the onerror callback nothing the
\* refs held is still in use and the refs are null
C28_OnErrorReleases ==
    lastEvent = "onerror" =>
        /\ ~isActive
        /\ sessionPromiseRef = 0 /\ inputAudioContextRef = 0 /\ outputAudioContextRef = 0
        /\ scriptProcessorRef = 0 /\ mediaStreamSourceRef = 0 /\ mediaStreamRef = 0

\* C28 in a browser that has AudioContext: the same, for the paths that do
\* not go through the catch block of startSession
C28_InactiveWithAudioContext == (env.AudioContext /\ ~isActive) => noResources

-----------------------------------------------------------------------------
(* C29: every stop request ends in the inactive state *)

\* the promises the browser and the SDK returned are settled at some time
GetUserMediaSettles == GetUserMediaResolves \/ GetUserMediaRejects

ConnectSettles == OnOpen \/ ConnectResolves \/ ConnectRejects

\* SpecVoice where no getUserMedia promise and no connection stays pending
\* for ever; the continuations of startSession and stopSession run in the
\* step that settles the promise they wait for
SpecVoiceFair ==
    /\ InitVoice
    /\ [][NextVoice]_vars
    /\ WF_vars(GetUserMediaSettles)
    /\ WF_vars(ConnectSettles)

stopRequested == lastEvent \in {"toggle", "close", "backdrop"}

\* the four flags are false and no microphone track is live
stopped ==
    /\ ~isActive /\ ~isConnecting /\ ~isListening /\ ~isSpeaking
    /\ \A k \in Sessions : sessions[k].track # "live"

\* C29: every request to stop the voice session (toggle button, close
\* button, backdrop) is eventually followed by a state where isActive,
\* isConnecting, isListening and isSpeaking are false and the microphone is
\* released, whether the connection promise was pending, resolved or
\* rejected at the request
C29_StopEventuallyInactive == stopRequested ~> stopped

\* C29 in one step: a stop request made when the connection promise is
\* rejected leaves the assistant inactive
C29_StopAfterRejection ==
    [][(stopRequested' /\ sessionPromiseRef # 0 /\ sessions[sessionPromiseRef].promise = "rejected")
          => ~isActive']_vars

-----------------------------------------------------------------------------
(* C30: the status flags and isActive *)

\* C30: in every interleaving of the session callbacks with start and stop,
\* isConnecting, isListening or isSpeaking true implies isActive true, and
\* isConnecting and isListening are never both true; an onopen or onmessage
\* callback after stopSession has completed leaves all flags false
C30_FlagsFollowActive ==
    /\ (isConnecting \/ isListening \/ isSpeaking) => isActive
    /\ ~(isConnecting /\ isListening)

\* C30, first part alone
C30_StatusImpliesActive == (isConnecting \/ isListening \/ isSpeaking) => isActive

\* C30, second part alone
C30_NotConnectingAndListening == ~(isConnecting /\ isListening)

====
